---- MODULE Spec2Model ----
(***************************************************************************)
(* Worklog: session ingestion pipeline.                                    *)
(*                                                                         *)
(* Spec        the processCommand pipeline (cli/process.ts) over the       *)
(*             ledger, the session store and the projects table (db.ts),   *)
(*             with discovery and hashing (session-detector.ts).           *)
(* SpecReader  parseSessionFile (session-reader.ts) folding a stream of    *)
(*             Claude records into a ParsedSession.                        *)
(* SpecCodex   parseCodexSessionFile (codex-reader.ts) doing the same for  *)
(*             Codex records of both generations.                          *)
(* SpecParsers one file parsed by the parser of its source family, as      *)
(*             processSession dispatches it.                               *)
(* SpecPatch   extractFilesFromPatch (codex-reader.ts) over a patch        *)
(*             payload given line by line.                                 *)
(* SpecSummary the ToolUse.input summaries both parsers build, by the       *)
(*             lengths of the strings involved.                            *)
(* SpecRace    one batch of processCommand on a fixed set of files, with    *)
(*             every order in which its tasks can complete.                *)
(* SpecBatches the batch loop of processCommand over more sessions than one  *)
(*             batch holds.                                                *)
(* SpecDecode  decodeProjectFolder (session-detector.ts) and getProjectInfo *)
(*             (codex-detector.ts) resolving project identities against a  *)
(*             file system.                                                *)
(***************************************************************************)
EXTENDS Integers, Sequences, FiniteSets, TLC

\* ------------------------------------------------------------------ bounds
NumFiles == 2
MaxDay == 2
MaxEdits == 1
MaxRuns == 2
MaxLen == 2
MaxTime == 2
MaxUuid == 2
MaxPatchLines == 3
MaxGitRoots == 1
MaxExtra == 1
RaceFiles == 2

\* ------------------------------------------------------- program constants
CONCURRENCY == 10
bufferDays == 2
WeekSpan == 6
MAX_LENGTH == 200

Files == 1..NumFiles
Days == 1..MaxDay
FarDay == MaxDay + bufferDays + 1

\* What a session file holds, as far as the pipeline looks at it: whether the
\* transcript has a code-change tool call, the date the parser derives, and
\* the file's modification time: the day of the session or, for a transcript
\* of the first day that was written to again much later, a day beyond the
\* reach of every single-date filter.
FileStates ==
  {c \in [edits : BOOLEAN, day : Days, mtime : Days \cup {FarDay}] :
     \/ c.mtime = c.day
     \/ c.mtime = FarDay /\ c.edits /\ c.day = 1}

VARIABLES
  fs,          \* the session files on disk: Files -> FileStates
  edited,      \* number of file modifications so far
  runs,        \* number of processCommand calls so far
  ledger,      \* table processed_files: rows [file_path, file_hash]
  store,       \* table session_summaries: rows [session_id, project_path, date, source]
  projects,    \* table projects: rows [project_path, first, last, total]
  daily,       \* table daily_summaries: the dates that have a row
  pc,          \* position of processCommand
  opts,        \* options of the current run: [force, filter]
  sessions,    \* the local `sessions` of processCommand (sequence of SessionFile)
  batchStart,  \* the loop index i of the batch loop (1-based)
  task,        \* per file of the running batch: position / outcome of processSession
  results,     \* the local `results` of processCommand
  ret,         \* how the last processCommand call ended
  marks,       \* history: per path, the hashes passed to markFileProcessed, in call order
  parsedOk,    \* history: the paths whose parse has completed in processSession
  rdIn,        \* parseSessionFile: the records the stream has yielded so far
  rd,          \* parseSessionFile: its local variables
  rdOut,       \* parseSessionFile: <<the ParsedSession returned>>, <<>> before
  cxIn,        \* parseCodexSessionFile: the records the stream has yielded so far
  cx,          \* parseCodexSessionFile: its local variables
  cxOut,       \* parseCodexSessionFile: <<the ParsedSession returned>>, <<>> before
  pxIn,        \* extractFilesFromPatch: the lines of patchContent
  pxOut,       \* extractFilesFromPatch: <<the array returned>>, <<>> before
  smCall,      \* the tool call last summarized: [by, name, len, files]
  smOut,       \* the length of the ToolUse.input built for it
  disk,        \* the directories that exist on the file system
  gits,        \* the directories that hold a .git entry
  dcOut,       \* <<the call made on this disk, its decodedPath and the identity
               \* it returned>>, <<>> before
  bqN,         \* batch loop: sessions.length, 0 before the selection
  bqI,         \* batch loop: the loop index i
  bqTask,      \* batch loop: per position, pending / running / done / failed
  bqResults,   \* batch loop: results.length
  rcPc,        \* one batch: idle / batch / done
  rcPlan,      \* one batch: the selected files and what happens to each
  rcFilter,    \* one batch: the date filter of the run
  rcTask,      \* one batch: per file, where its processSession call is
  rcDb,        \* one batch: the ledger, the session rows, the project records
  rcRet        \* one batch: the returned counts

pipeVars == <<fs, edited, runs, ledger, store, projects, daily, pc, opts, sessions,
              batchStart, task, results, ret, marks, parsedOk>>

rdVars == <<rdIn, rd, rdOut>>

cxVars == <<cxIn, cx, cxOut>>

pxVars == <<pxIn, pxOut>>

smVars == <<smCall, smOut>>

dcVars == <<disk, gits, dcOut>>

bqVars == <<bqN, bqI, bqTask, bqResults>>

rcVars == <<rcPc, rcPlan, rcFilter, rcTask, rcDb, rcRet>>

vars == <<pipeVars, rdVars, cxVars, pxVars, smVars, dcVars, bqVars, rcVars>>

\* ------------------------------------------------ JavaScript value semantics
\* Strings are coded as integers that keep their order: '' is the least
\* string, timestamps of one format order as their instants do.
UNDEF == -1
EMPTY == 0
Falsy(v) == v \in {UNDEF, EMPTY}
\* a < b, a > b: false whenever an operand is undefined
JsLess(a, b) == a # UNDEF /\ b # UNDEF /\ a < b
JsGreater(a, b) == JsLess(b, a)
\* v || 0
OrZero(v) == IF v = UNDEF THEN 0 ELSE v

\* Instants are counted in hours since 00:00 UTC of day 0; an instant h
\* stands for every time of day h:00 .. h:59.  The sample: 01:00 of day 0,
\* 03:00 of day 1, 05:00 of day 2, ...
InstantAt(k) == 26 * k - 25
Times == {InstantAt(k) : k \in 1..MaxTime}
\* new Date().toISOString() when a parser returns
Nows == {InstantAt(k) : k \in 1..(MaxTime + 1)}
Timestamps == {UNDEF, EMPTY} \cup Times
Uuids == 1..MaxUuid
\* timestamp.split('T')[0]: the UTC day of the instant
DateOfIso(t) == t \div 24

\* Variant: a name already counted is not counted again.
CountTool_Once(tc, name) ==
  IF name \in DOMAIN tc THEN tc ELSE tc @@ (name :> 1)

\* toolCalls[name] = (toolCalls[name] || 0) + 1
CountTool(tc, name) ==
  IF name \in DOMAIN tc THEN [tc EXCEPT ![name] = @ + 1] ELSE tc @@ (name :> 1)

RECURSIVE CountTools(_, _)
CountTools(tc, toolUses) ==
  IF toolUses = <<>> THEN tc
  ELSE CountTools(CountTool(tc, Head(toolUses).name), Tail(toolUses))

\* ------------------------------------------------------- parseSessionFile
TextItem == [type |-> "text", name |-> "", text |-> 1]
\* the environment_context block of an old-format Codex session: its text is
\* "Current working directory: " followed by the directory
CwdItem == [type |-> "input_text", name |-> "",
            text |-> <<"Current working directory: ", "/repo">>]
ToolItem(n) == [type |-> "tool_use", name |-> n, text |-> EMPTY]
MessageId == 101
Usage0 == [input_tokens |-> 10, output_tokens |-> 5,
           cache_creation_input_tokens |-> 2, cache_read_input_tokens |-> UNDEF]
Usage1 == [input_tokens |-> 7, output_tokens |-> 3,
           cache_creation_input_tokens |-> 1, cache_read_input_tokens |-> 4]

\* The records a Claude session file can hold.  A field that is absent is
\* UNDEF; message.usage is a list of zero or one usage block.
UserEntries ==
  {[type |-> "user", uuid |-> u, timestamp |-> t, sessionId |-> v[1],
    gitBranch |-> v[1], requestId |-> UNDEF, msgId |-> UNDEF, usage |-> v[2],
    content |-> <<TextItem>>] :
     u \in Uuids, t \in Timestamps,
     v \in {<<1, <<>>>>, <<UNDEF, <<>>>>, <<1, <<Usage0>>>>}}

AssistantEntries ==
  {[type |-> "assistant", uuid |-> u, timestamp |-> t, sessionId |-> 1,
    gitBranch |-> 1, requestId |-> m, msgId |-> m, usage |-> v[1],
    content |-> v[2]] :
     u \in Uuids, t \in Timestamps, m \in {UNDEF, MessageId},
     v \in {<<<<Usage0>>, <<TextItem>>>>,
            <<<<Usage1>>, <<TextItem, ToolItem("Edit")>>>>,
            <<<<>>, <<ToolItem("Read"), ToolItem("Read")>>>>}}

OtherEntries ==
  {[type |-> "summary", uuid |-> u, timestamp |-> t, sessionId |-> UNDEF,
    gitBranch |-> UNDEF, requestId |-> UNDEF, msgId |-> UNDEF, usage |-> <<>>,
    content |-> <<>>] : u \in Uuids, t \in Timestamps}

RawSessionEntries == UserEntries \cup AssistantEntries \cup OtherEntries

\* `${entry.message?.id || entry.uuid}:${entry.requestId || ''}`
DedupKey(entry) ==
  <<IF Falsy(entry.msgId) THEN entry.uuid ELSE entry.msgId,
    IF Falsy(entry.requestId) THEN EMPTY ELSE entry.requestId>>

\* Variant: the cache counters are left out of the input total.
InputTokensOf_NoCache(usage) == OrZero(usage.input_tokens)

\* what one usage block adds to totalInputTokens
InputTokensOf(usage) ==
  OrZero(usage.input_tokens) + OrZero(usage.cache_creation_input_tokens)
    + OrZero(usage.cache_read_input_tokens)

extractText(content) ==
  LET texts == SelectSeq(content, LAMBDA item : item.type = "text" /\ ~Falsy(item.text))
  IN [i \in 1..Len(texts) |-> texts[i].text]

extractToolUses(content) ==
  LET tools == SelectSeq(content, LAMBDA item : item.type = "tool_use")
  IN [i \in 1..Len(tools) |-> [name |-> tools[i].name]]

\* if (!bound || ts < bound) bound = ts
TrackStart(startTime, ts) ==
  IF Falsy(startTime) \/ JsLess(ts, startTime) THEN ts ELSE startTime
TrackEnd(endTime, ts) ==
  IF Falsy(endTime) \/ JsGreater(ts, endTime) THEN ts ELSE endTime

Reader0 ==
  [seen |-> {}, sessionId |-> EMPTY, gitBranch |-> EMPTY, startTime |-> EMPTY,
   endTime |-> EMPTY, totalInputTokens |-> 0, totalOutputTokens |-> 0,
   userMessages |-> 0, assistantMessages |-> 0, messages |-> <<>>,
   toolCalls |-> <<>>]

\* One iteration of the for-await loop of parseSessionFile.
ReaderStep(st, entry) ==
  IF DedupKey(entry) \in st.seen THEN st
  ELSE
    LET counted == entry.type = "assistant" /\ entry.usage # <<>>
        usage == entry.usage[1]
        toolUses == extractToolUses(entry.content)
    IN [seen |-> st.seen \cup {DedupKey(entry)},
        sessionId |-> IF Falsy(st.sessionId) /\ ~Falsy(entry.sessionId)
                      THEN entry.sessionId ELSE st.sessionId,
        gitBranch |-> IF Falsy(st.gitBranch) /\ ~Falsy(entry.gitBranch)
                      THEN entry.gitBranch ELSE st.gitBranch,
        startTime |-> TrackStart(st.startTime, entry.timestamp),
        endTime |-> TrackEnd(st.endTime, entry.timestamp),
        totalInputTokens |->
          IF counted
          THEN st.totalInputTokens + InputTokensOf(usage)
          ELSE st.totalInputTokens,
        totalOutputTokens |->
          IF counted THEN st.totalOutputTokens + OrZero(usage.output_tokens)
          ELSE st.totalOutputTokens,
        userMessages |-> st.userMessages + (IF entry.type = "user" THEN 1 ELSE 0),
        assistantMessages |->
          st.assistantMessages + (IF entry.type = "assistant" THEN 1 ELSE 0),
        messages |-> Append(st.messages,
                       [type |-> entry.type, timestamp |-> entry.timestamp,
                        text |-> extractText(entry.content), toolUses |-> toolUses]),
        toolCalls |-> CountTools(st.toolCalls, toolUses)]

\* A file path is the sequence of its components; a component is the
\* sequence of the pieces it is written with, ".jsonl" being one piece.
\* Discovery keeps every file whose name ends with ".jsonl".
BaseNames ==
  { <<"f81d4fae", ".jsonl">>,
    <<"notes", ".jsonl", "old", ".jsonl">> }
FilePaths == {<<<<"sessions">>, base>> : base \in BaseNames}

\* str.replace('.jsonl', ''): the first occurrence is removed
ReplaceFirstJsonl(str) ==
  IF \E i \in 1..Len(str) : str[i] = ".jsonl"
  THEN LET k == CHOOSE i \in 1..Len(str) :
                  /\ str[i] = ".jsonl"
                  /\ \A j \in 1..(i - 1) : str[j] # ".jsonl"
       IN SubSeq(str, 1, k - 1) \o SubSeq(str, k + 1, Len(str))
  ELSE str

\* A session id is a string, written as the sequence of its pieces: the text
\* of an id found in a record is one piece.
StringOf(id) == <<ToString(id)>>

\* filePath.split('/').pop()?.replace('.jsonl', '') || 'unknown'
FileStem(filePath) ==
  LET replaced == ReplaceFirstJsonl(filePath[Len(filePath)])
  IN IF replaced = <<>> THEN <<"unknown">> ELSE replaced

\* The paths worth telling apart when a parser returns: the file name is
\* looked at only when no record supplied a session id.
PathsFor(sessionId) ==
  IF Falsy(sessionId) THEN FilePaths
  ELSE {<<<<"sessions">>, <<"f81d4fae", ".jsonl">>>>}

\* Variant: the bounds are returned as the loop left them.
ReaderResult_NoDefault(st, now, filePath) ==
  [sessionId |-> IF Falsy(st.sessionId) THEN FileStem(filePath)
                 ELSE StringOf(st.sessionId),
   gitBranch |-> st.gitBranch,
   startTime |-> st.startTime,
   endTime |-> st.endTime,
   date |-> DateOfIso(st.startTime),
   messages |-> st.messages,
   stats |-> [userMessages |-> st.userMessages,
              assistantMessages |-> st.assistantMessages,
              toolCalls |-> st.toolCalls,
              totalInputTokens |-> st.totalInputTokens,
              totalOutputTokens |-> st.totalOutputTokens]]

\* parseSessionFile after the loop: the defaults and the returned object.
ReaderResult(st, now, filePath) ==
  LET startTime == IF Falsy(st.startTime) THEN now ELSE st.startTime
      endTime == IF Falsy(st.endTime) THEN startTime ELSE st.endTime
  IN [sessionId |-> IF Falsy(st.sessionId) THEN FileStem(filePath)
                 ELSE StringOf(st.sessionId),
      gitBranch |-> st.gitBranch,
      startTime |-> startTime,
      endTime |-> endTime,
      date |-> DateOfIso(startTime),
      messages |-> st.messages,
      stats |-> [userMessages |-> st.userMessages,
                 assistantMessages |-> st.assistantMessages,
                 toolCalls |-> st.toolCalls,
                 totalInputTokens |-> st.totalInputTokens,
                 totalOutputTokens |-> st.totalOutputTokens]]

InitReader ==
  /\ rdIn = <<>>
  /\ rd = Reader0
  /\ rdOut = <<>>

\* The stream yields the next record of the file.
ReadEntry(entry) ==
  /\ rdOut = <<>>
  /\ Len(rdIn) < MaxLen
  /\ rdIn' = Append(rdIn, entry)
  /\ rd' = ReaderStep(rd, entry)
  /\ UNCHANGED <<rdOut, pipeVars, cxVars, pxVars, smVars, dcVars, bqVars, rcVars>>

\* End of file: parseSessionFile returns; now is the wall clock and filePath
\* the file that was read.
ReaderReturn(now, filePath) ==
  /\ rdOut = <<>>
  /\ rdOut' = <<ReaderResult(rd, now, filePath)>>
  /\ UNCHANGED <<rdIn, rd, pipeVars, cxVars, pxVars, smVars, dcVars, bqVars, rcVars>>

NextReader ==
  \/ \E entry \in RawSessionEntries : ReadEntry(entry)
  \/ \E now \in Nows, filePath \in PathsFor(rd.sessionId) : ReaderReturn(now, filePath)

\* -------------------------------------------------- parseCodexSessionFile
\* total_token_usage blocks of token_count events
UsageA == [input_tokens |-> 100, output_tokens |-> 50,
           cached_input_tokens |-> UNDEF, reasoning_output_tokens |-> UNDEF]
UsageB == [input_tokens |-> 180, output_tokens |-> 90,
           cached_input_tokens |-> UNDEF, reasoning_output_tokens |-> UNDEF]
UsageC == [input_tokens |-> 10, output_tokens |-> 5,
           cached_input_tokens |-> 3, reasoning_output_tokens |-> 2]

\* The shapes of record a Codex session file can hold.  type is the record's
\* type, ptype the payload's; id and git are the top-level fields of an
\* old-format first line (for session_meta: payload.id, payload.git); usage is
\* the list of zero or one payload.info.total_token_usage; args classes the
\* arguments string of an old-format shell call.
CodexShape(type, ptype, id, git, usage, name, role, content, args) ==
  [type |-> type, ptype |-> ptype, id |-> id, git |-> git, usage |-> usage,
   name |-> name, role |-> role, content |-> content, args |-> args]

CodexShapes ==
  { CodexShape("session_meta", "", 1, <<1>>, <<>>, "", "", <<>>, "none"),
    CodexShape("", "", 2, <<1>>, <<>>, "", "", <<>>, "none"),
    CodexShape("", "", 2, <<>>, <<>>, "", "", <<>>, "none"),
    CodexShape("event_msg", "user_message", UNDEF, <<>>, <<>>, "", "", <<>>, "none"),
    CodexShape("event_msg", "agent_message", UNDEF, <<>>, <<>>, "", "", <<>>, "none"),
    CodexShape("event_msg", "token_count", UNDEF, <<>>, <<UsageA>>, "", "", <<>>, "none"),
    CodexShape("event_msg", "token_count", UNDEF, <<>>, <<UsageB>>, "", "", <<>>, "none"),
    CodexShape("event_msg", "token_count", UNDEF, <<>>, <<UsageC>>, "", "", <<>>, "none"),
    CodexShape("event_msg", "token_count", UNDEF, <<>>, <<>>, "", "", <<>>, "none"),
    CodexShape("response_item", "function_call", UNDEF, <<>>, <<>>, "shell_command", "", <<>>, "none"),
    CodexShape("response_item", "function_call", UNDEF, <<>>, <<>>, "shell", "", <<>>, "none"),
    CodexShape("response_item", "function_call", UNDEF, <<>>, <<>>, "update_plan", "", <<>>, "none"),
    CodexShape("response_item", "custom_tool_call", UNDEF, <<>>, <<>>, "apply_patch", "", <<>>, "none"),
    CodexShape("response_item", "message", UNDEF, <<>>, <<>>, "", "assistant", <<TextItem>>, "none"),
    CodexShape("response_item", "reasoning", UNDEF, <<>>, <<>>, "", "", <<>>, "none"),
    CodexShape("function_call", "", UNDEF, <<>>, <<>>, "shell", "", <<>>, "patch_heredoc"),
    CodexShape("function_call", "", UNDEF, <<>>, <<>>, "shell", "", <<>>, "command"),
    CodexShape("message", "", UNDEF, <<>>, <<>>, "", "user", <<CwdItem>>, "none"),
    CodexShape("turn_context", "", UNDEF, <<>>, <<>>, "", "", <<>>, "none") }

CodexEntries ==
  {[shape |-> sh, timestamp |-> t] : sh \in CodexShapes, t \in Timestamps}

\* Variant: the name is passed through as the source tool wrote it.
mapCodexToolName_Identity(name) == name

mapCodexToolName(name) ==
  CASE name = "shell" -> "Bash"
    [] name = "shell_command" -> "Bash"
    [] name = "apply_patch" -> "Edit"
    [] name = "update_plan" -> "TodoWrite"
    [] OTHER -> name

\* Variant: the snapshot is added to the running totals.
applyTokenCount_Add(st, usage) ==
  [st EXCEPT
     !.totalInputTokens = @ + usage.input_tokens + OrZero(usage.cached_input_tokens),
     !.totalOutputTokens = @ + usage.output_tokens + OrZero(usage.reasoning_output_tokens)]

\* the token_count branch: the snapshot replaces the totals
applyTokenCount(st, usage) ==
  [st EXCEPT
     !.totalInputTokens = usage.input_tokens + OrZero(usage.cached_input_tokens),
     !.totalOutputTokens = usage.output_tokens + OrZero(usage.reasoning_output_tokens)]

PushMessage(st, type, timestamp, text, toolUses) ==
  [st EXCEPT
     !.messages = Append(@, [type |-> type, timestamp |-> timestamp,
                             text |-> text, toolUses |-> toolUses]),
     !.userMessages = @ + (IF type = "user" THEN 1 ELSE 0),
     !.assistantMessages = @ + (IF type = "assistant" THEN 1 ELSE 0)]

\* toolCalls[name] = (toolCalls[name] || 0) + 1 in parseCodexSessionFile
CountCall(st, name) == [st EXCEPT !.toolCalls = CountTool(@, name)]

Codex0 ==
  [sessionId |-> EMPTY, gitBranch |-> EMPTY, startTime |-> EMPTY,
   endTime |-> EMPTY, totalInputTokens |-> 0, totalOutputTokens |-> 0,
   userMessages |-> 0, assistantMessages |-> 0, messages |-> <<>>,
   toolCalls |-> <<>>]

\* One iteration of the for-await loop of parseCodexSessionFile.
CodexStep(st0, entry) ==
  LET e == entry.shape
      ts == entry.timestamp
      st == IF Falsy(ts) THEN st0
            ELSE [st0 EXCEPT !.startTime = TrackStart(@, ts),
                             !.endTime = TrackEnd(@, ts)]
  IN IF e.type = "session_meta"
     THEN [st EXCEPT !.sessionId = IF Falsy(e.id) THEN EMPTY ELSE e.id,
                     !.gitBranch = IF e.git = <<>> THEN EMPTY ELSE e.git[1]]
     ELSE IF ~Falsy(e.id) /\ e.type = "" /\ e.git # <<>>
     THEN [st EXCEPT !.sessionId = e.id, !.gitBranch = e.git[1]]
     ELSE IF e.type = "event_msg"
     THEN IF e.ptype = "user_message" THEN PushMessage(st, "user", ts, <<1>>, <<>>)
          ELSE IF e.ptype = "agent_message"
          THEN PushMessage(st, "assistant", ts, <<1>>, <<>>)
          ELSE IF e.ptype = "token_count" /\ e.usage # <<>>
          THEN applyTokenCount(st, e.usage[1])
          ELSE st
     ELSE IF e.type = "response_item"
     THEN IF e.ptype \in {"function_call", "custom_tool_call"} /\ e.name # ""
          THEN PushMessage(CountCall(st, mapCodexToolName(e.name)), "assistant",
                           ts, <<>>, <<[name |-> mapCodexToolName(e.name)]>>)
          ELSE IF e.ptype = "message" /\ e.role = "assistant"
                  /\ extractText(e.content) # <<>>
          THEN PushMessage(st, "assistant", ts, extractText(e.content), <<>>)
          ELSE st
     ELSE IF e.type = "function_call" /\ e.name = "shell"
     THEN LET oldTs == IF Falsy(ts) THEN EMPTY ELSE ts
          IN IF e.args = "patch_heredoc"
             THEN PushMessage(CountCall(st, "Edit"), "assistant", oldTs, <<>>,
                              <<[name |-> "Edit"]>>)
             ELSE IF e.args = "command"
             THEN PushMessage(CountCall(st, "Bash"), "assistant", oldTs, <<>>,
                              <<[name |-> "Bash"]>>)
             ELSE st
     ELSE st

\* Variant: the date of the timestamp itself, without the 3am boundary.
getEffectiveDate_NoShift(timestamp, tz) == DateOfIso(timestamp)

\* Offsets from UTC of the zones the host may run in (fixed-offset zones).
TimeZones == {0, 2}

\* getEffectiveDate in a zone tz hours ahead of UTC: getHours reads the local
\* wall clock, setHours writes it three hours back, toISOString prints the
\* resulting instant in UTC and split takes its date.
getEffectiveDate(timestamp, tz) ==
  LET local == timestamp + tz
      shifted == local - 3
      instant == shifted - tz
  IN DateOfIso(instant)

\* parseCodexSessionFile after the loop: the defaults and the returned object.
CodexResult(st, now, tz, filePath) ==
  LET startTime == IF Falsy(st.startTime) THEN now ELSE st.startTime
      endTime == IF Falsy(st.endTime) THEN startTime ELSE st.endTime
  IN [sessionId |-> IF Falsy(st.sessionId) THEN FileStem(filePath)
                 ELSE StringOf(st.sessionId),
      gitBranch |-> st.gitBranch,
      startTime |-> startTime,
      endTime |-> endTime,
      date |-> getEffectiveDate(endTime, tz),
      messages |-> st.messages,
      stats |-> [userMessages |-> st.userMessages,
                 assistantMessages |-> st.assistantMessages,
                 toolCalls |-> st.toolCalls,
                 totalInputTokens |-> st.totalInputTokens,
                 totalOutputTokens |-> st.totalOutputTokens]]

InitCodex ==
  /\ cxIn = <<>>
  /\ cx = Codex0
  /\ cxOut = <<>>

\* The stream yields the next record of the file.
ReadCodexEntry(entry) ==
  /\ cxOut = <<>>
  /\ Len(cxIn) < MaxLen
  /\ cxIn' = Append(cxIn, entry)
  /\ cx' = CodexStep(cx, entry)
  /\ UNCHANGED <<cxOut, pipeVars, rdVars, pxVars, smVars, dcVars, bqVars, rcVars>>

\* End of file: parseCodexSessionFile returns; now is the wall clock, tz the
\* zone of the host and filePath the file that was read.
CodexReturn(now, tz, filePath) ==
  /\ cxOut = <<>>
  /\ cxOut' = <<CodexResult(cx, now, tz, filePath)>>
  /\ UNCHANGED <<cxIn, cx, pipeVars, rdVars, pxVars, smVars, dcVars, bqVars, rcVars>>

NextCodex ==
  \/ \E entry \in CodexEntries : ReadCodexEntry(entry)
  \/ \E now \in Nows, tz \in TimeZones, filePath \in PathsFor(cx.sessionId) :
       CodexReturn(now, tz, filePath)

\* -------------------------------------------------- extractCodexSessionMeta
\* Discovery reads the same file as the parser, one record per line.
isNewFormat(e) == e.type = "session_meta"
isOldFormat(e) == ~Falsy(e.id) /\ e.type = ""

\* entry.payload?.cwd: the session_meta records modelled carry their cwd
payloadCwd(e) == <<"/repo">>

\* /Current working directory: ([^\n\\]+)/ on a block's text: the list of zero
\* or one captured directory
cwdOfBlock(block) ==
  IF block.type = "input_text" /\ Len(block.text) = 2
       /\ block.text[1] = "Current working directory: "
  THEN <<<<block.text[2]>>>> ELSE <<>>

\* the directory of the first environment_context block in the first ten
\* lines, as a list of zero or one
RECURSIVE cwdOfBlocks(_)
cwdOfBlocks(content) ==
  IF content = <<>> THEN <<>>
  ELSE IF cwdOfBlock(Head(content)) # <<>> THEN cwdOfBlock(Head(content))
  ELSE cwdOfBlocks(Tail(content))

RECURSIVE cwdOfLines(_, _)
cwdOfLines(lines, i) ==
  IF i > Len(lines) \/ i > 10 THEN <<>>
  ELSE IF lines[i].shape.type = "message" /\ cwdOfBlocks(lines[i].shape.content) # <<>>
  THEN cwdOfBlocks(lines[i].shape.content)
  ELSE cwdOfLines(lines, i + 1)

\* extractCodexSessionMeta: the list of zero (null) or one metadata record
extractCodexSessionMeta(lines) ==
  IF lines = <<>> THEN <<>>
  ELSE LET entry == lines[1].shape
       IN IF isNewFormat(entry) /\ payloadCwd(entry) # <<>>
          THEN <<[cwd |-> payloadCwd(entry),
                  sessionId |-> IF entry.id = UNDEF THEN EMPTY ELSE entry.id,
                  gitBranch |-> IF entry.git = <<>> THEN EMPTY ELSE entry.git[1]]>>
          ELSE IF isOldFormat(entry) /\ cwdOfLines(lines, 1) # <<>>
          THEN <<[cwd |-> cwdOfLines(lines, 1)[1],
                  sessionId |-> entry.id,
                  gitBranch |-> IF entry.git = <<>> THEN EMPTY ELSE entry.git[1]]>>
          ELSE <<>>

\* findAllCodexSessionFiles on one file of a day directory: the list of zero
\* (skipped) or one session id pushed for it
discoveredSessionId(lines, file) ==
  LET meta == extractCodexSessionMeta(lines)
  IN IF meta = <<>> \/ meta[1].cwd = <<>> THEN <<>>
     ELSE IF meta[1].sessionId # EMPTY THEN <<StringOf(meta[1].sessionId)>>
     ELSE <<ReplaceFirstJsonl(file)>>

\* --------------------------------------------------- extractFilesFromPatch
\* A patch payload is a sequence of lines.  A marker line is
\* `*** <op> File:` followed by its path (text; "" when nothing follows the
\* colon); a text line is any other non-blank line; a blank line holds
\* nothing but white space.  A captured string is the sequence of its pieces.
PatchLine(kind, op, text) == [kind |-> kind, op |-> op, text |-> text]

PatchLines ==
  { PatchLine("marker", "Add", "a.go"),
    PatchLine("marker", "Update", "b.go"),
    PatchLine("marker", "Delete", "a.go"),
    PatchLine("marker", "Add", ""),
    PatchLine("text", "", "*** Begin Patch"),
    PatchLine("text", "", "+hello"),
    PatchLine("blank", "", "") }

\* the characters of a line from its first non-blank one, trimmed
LineText(l) ==
  IF l.kind = "marker"
  THEN IF l.text = "" THEN <<"*** File:", l.op>> ELSE <<"*** File:", l.op, l.text>>
  ELSE <<l.text>>

\* if (filePath && !files.includes(filePath)) files.push(filePath)
PushFile(files, filePath) ==
  IF filePath = <<>> \/ \E i \in 1..Len(files) : files[i] = filePath
  THEN files ELSE Append(files, filePath)

\* index of the first line that is not blank, 0 when there is none
FirstNonBlank(lines) ==
  IF \E i \in 1..Len(lines) : lines[i].kind # "blank"
  THEN CHOOSE i \in 1..Len(lines) :
         /\ lines[i].kind # "blank"
         /\ \A j \in 1..(i - 1) : lines[j].kind = "blank"
  ELSE 0

\* The loop over regex.exec with /\*\*\* (?:Add|Update|Delete) File:\s*(.+)/g.
\* After `File:` the \s* takes all white space, line ends included, and (.+)
\* takes the rest of the line it stops in: the marker's own line when a path
\* follows the colon, else the next non-blank line, whatever that line is;
\* the search resumes after the captured line.
RECURSIVE scanPatch(_, _)
scanPatch(lines, files) ==
  IF lines = <<>> THEN files
  ELSE LET l == Head(lines)
           rest == Tail(lines)
           k == FirstNonBlank(rest)
       IN IF l.kind # "marker" THEN scanPatch(rest, files)
          ELSE IF l.text # "" THEN scanPatch(rest, PushFile(files, <<l.text>>))
          ELSE IF k = 0 THEN files
          ELSE scanPatch(SubSeq(rest, k + 1, Len(rest)),
                         PushFile(files, LineText(rest[k])))

extractFilesFromPatch(patchContent) == scanPatch(patchContent, <<>>)

InitPatch ==
  /\ pxIn = <<>>
  /\ pxOut = <<>>

\* The payload has one more line.
PatchGrows(l) ==
  /\ pxOut = <<>>
  /\ Len(pxIn) < MaxPatchLines
  /\ pxIn' = Append(pxIn, l)
  /\ UNCHANGED <<pxOut, pipeVars, rdVars, cxVars, smVars, dcVars, bqVars, rcVars>>

\* extractFilesFromPatch is called on the payload.
ExtractPatch ==
  /\ pxOut = <<>>
  /\ pxOut' = <<extractFilesFromPatch(pxIn)>>
  /\ UNCHANGED <<pxIn, pipeVars, rdVars, cxVars, smVars, dcVars, bqVars, rcVars>>

NextPatch ==
  \/ \E l \in PatchLines : PatchGrows(l)
  \/ ExtractPatch

\* ------------------------------------------------------ ToolUse.input summaries
\* A string is represented by its length.
StringLengths == {0, 1, MAX_LENGTH - 1, MAX_LENGTH, MAX_LENGTH + 1, 2 * MAX_LENGTH}
\* a file path is not empty; the array extractFilesFromPatch returns has at
\* most one entry per line of the payload
PathLengths == {30, MAX_LENGTH - 1, MAX_LENGTH + 1}
FileLists == UNION {[1..n -> PathLengths] : n \in 0..MaxPatchLines}

\* str.slice(0, n).length
SliceLen(len, n) == IF len < n THEN len ELSE n

truncate(len, maxLength) ==
  IF len <= maxLength THEN len ELSE SliceLen(len, maxLength - 3) + 3

\* summarizeToolInput: every case selects one string and truncates it
ClaudeToolNames == {"Bash", "Read", "Write", "Edit", "Glob", "Grep", "Task", "WebFetch"}
summarizeToolInput(toolName, len) == truncate(len, MAX_LENGTH)

\* number of decimal digits of n
Digits(n) == IF n < 10 THEN 1 ELSE IF n < 100 THEN 2 ELSE 3

RECURSIVE JoinLen(_, _)
\* files.join(sep).length
JoinLen(files, sepLen) ==
  IF files = <<>> THEN 0
  ELSE IF Len(files) = 1 THEN files[1]
  ELSE files[1] + sepLen + JoinLen(Tail(files), sepLen)

\* summarizeCodexToolInput: len is the length of the command (shell) or of
\* payload.input (apply_patch), 0 when the field is absent; files is what
\* extractFilesFromPatch found in payload.input.
summarizeCodexToolInput(name, len, files) ==
  IF name \in {"shell", "shell_command"} /\ len > 0 THEN truncate(len, MAX_LENGTH)
  ELSE IF name = "apply_patch" /\ len > 0
  THEN IF Len(files) > 0
       THEN IF Len(files) = 1 THEN files[1]
            \* `${files[0]} (+${files.length - 1} more)`
            ELSE files[1] + 3 + Digits(Len(files) - 1) + 6
       ELSE truncate(len, MAX_LENGTH)
  ELSE 0

\* old format, apply_patch heredoc: `apply_patch: ${files.join(', ') || 'file changes'}`
summarizeOldPatch(files) ==
  13 + (IF JoinLen(files, 2) = 0 THEN 12 ELSE JoinLen(files, 2))

\* old format, plain command: shellCmd?.substring(0, 100) || 'shell command'
summarizeOldShell(len) == IF SliceLen(len, 100) = 0 THEN 13 ELSE SliceLen(len, 100)

NoCall == [by |-> "none", name |-> "", len |-> 0, files |-> <<>>]

InitSummary ==
  /\ smCall = NoCall
  /\ smOut = 0

\* extractToolUses builds the ToolUse of a tool_use item.
SummarizeClaude(name, len) ==
  /\ smCall' = [by |-> "claude", name |-> name, len |-> len, files |-> <<>>]
  /\ smOut' = summarizeToolInput(name, len)
  /\ UNCHANGED <<pipeVars, rdVars, cxVars, pxVars, dcVars, bqVars, rcVars>>

\* parseCodexSessionFile builds the ToolUse of a response_item tool call.
SummarizeCodex(name, len, files) ==
  /\ (files # <<>>) => (name = "apply_patch" /\ len > JoinLen(files, 0))
  /\ smCall' = [by |-> "codex", name |-> name, len |-> len, files |-> files]
  /\ smOut' = summarizeCodexToolInput(name, len, files)
  /\ UNCHANGED <<pipeVars, rdVars, cxVars, pxVars, dcVars, bqVars, rcVars>>

\* parseCodexSessionFile builds the ToolUse of an old-format shell call that
\* wraps apply_patch.
SummarizeOldPatch(files) ==
  /\ smCall' = [by |-> "codex-old", name |-> "apply_patch", len |-> 0, files |-> files]
  /\ smOut' = summarizeOldPatch(files)
  /\ UNCHANGED <<pipeVars, rdVars, cxVars, pxVars, dcVars, bqVars, rcVars>>

\* parseCodexSessionFile builds the ToolUse of an old-format plain shell call.
SummarizeOldShell(len) ==
  /\ smCall' = [by |-> "codex-old", name |-> "shell", len |-> len, files |-> <<>>]
  /\ smOut' = summarizeOldShell(len)
  /\ UNCHANGED <<pipeVars, rdVars, cxVars, pxVars, dcVars, bqVars, rcVars>>

NextSummary ==
  \/ \E name \in ClaudeToolNames, len \in StringLengths : SummarizeClaude(name, len)
  \/ \E name \in {"shell", "shell_command", "apply_patch", "update_plan"},
        len \in StringLengths \cup {3 * MAX_LENGTH}, files \in FileLists :
       SummarizeCodex(name, len, files)
  \/ \E files \in FileLists : SummarizeOldPatch(files)
  \/ \E len \in StringLengths : SummarizeOldShell(len)

\* ------------------------------------------------------ decodeProjectFolder
\* A string is the sequence of its tokens: "/" , "-" , "." and names, a name
\* being a run of characters that holds none of the three.
Slash == "/"
Dash == "-"
Dot == "."

\* str.split(sep)
RECURSIVE SplitOn(_, _)
SplitOn(str, sep) ==
  IF \A i \in 1..Len(str) : str[i] # sep THEN <<str>>
  ELSE LET k == CHOOSE i \in 1..Len(str) :
                  str[i] = sep /\ \A j \in 1..(i - 1) : str[j] # sep
       IN <<SubSeq(str, 1, k - 1)>> \o SplitOn(SubSeq(str, k + 1, Len(str)), sep)

\* parts.join(sep)
RECURSIVE JoinWith(_, _)
JoinWith(parts, sep) ==
  IF parts = <<>> THEN <<>>
  ELSE IF Len(parts) = 1 THEN parts[1]
  ELSE parts[1] \o <<sep>> \o JoinWith(Tail(parts), sep)

\* str.replace(/-/g, '/')
DashesToSlashes(str) == [i \in 1..Len(str) |-> IF str[i] = Dash THEN Slash ELSE str[i]]

\* str.replace(/--/g, '/.'): pairs of dashes, matched left to right
RECURSIVE HiddenFolders(_)
HiddenFolders(str) ==
  IF Len(str) < 2 THEN str
  ELSE IF str[1] = Dash /\ str[2] = Dash
  THEN <<Slash, Dot>> \o HiddenFolders(SubSeq(str, 3, Len(str)))
  ELSE <<str[1]>> \o HiddenFolders(Tail(str))

\* path.split('/').pop()
LastSegment(path) ==
  LET segs == SplitOn(path, Slash) IN segs[Len(segs)]

\* dirname(path) of an absolute path
dirname(path) ==
  LET segs == SplitOn(path, Slash)
      up == JoinWith(SubSeq(segs, 1, Len(segs) - 1), Slash)
  IN IF up = <<>> THEN <<Slash>> ELSE up

\* homedir()
homedir == <<Slash, "Users", Slash, "u">>

\* The directories the file system may hold, each with the directories above
\* it: readings of the folder names below, and the home directory.
SrcA == homedir \o <<Slash, "src", Slash, "a">>
SrcTries == homedir \o <<Slash, "src", Slash, "tries">>
Dirs ==
  { <<Slash, "Users">>, homedir, homedir \o <<Slash, "src">>, SrcA, SrcTries,
    SrcA \o <<Slash, "my", Dash, "cool", Dash, "app">>,
    SrcA \o <<Slash, "my", Dash, "cool">>,
    SrcA \o <<Slash, "my", Dash, "cool", Slash, "app">>,
    SrcA \o <<Slash, "my">>,
    SrcA \o <<Slash, "my", Slash, "cool", Dash, "app">>,
    SrcTries \o <<Slash, "2025", Dash, "12", Dash, "15", Dash, "todo">>,
    <<Slash, "opt">>,
    <<Slash, "opt", Slash, "my">>,
    <<Slash, "opt", Slash, "my", Slash, "app">>,
    <<Slash, "opt", Slash, "my", Dash, "app">> }

\* The folder names under ~/.claude/projects that discovery may meet.
FolderNames ==
  { <<Dash, "Users", Dash, "u", Dash, "src", Dash, "a", Dash, "my", Dash, "cool", Dash, "app">>,
    <<Dash, "Users", Dash, "u", Dash, "src", Dash, "tries", Dash,
      "2025", Dash, "12", Dash, "15", Dash, "todo">>,
    <<Dash, "Users", Dash, "u">>,
    <<Dash, "Users", Dash, "u", Dash, Dash, "config">>,
    <<Dash, "opt", Dash, "my", Dash, "app">> }

\* A session file as far as extractCwdFromSessionFile reads it: the cwd field
\* of each line (<<>> when the line has none, or an empty one).  NoSessionFile
\* is a folder without session file, or a path that does not exist.
NoCwd == <<>>
WorkCwd == <<Slash, "srv", Slash, "work">>
NoSessionFile == <<"none">>
SessionFiles ==
  { NoSessionFile,
    <<"lines", <<>>>>,
    <<"lines", <<NoCwd, WorkCwd>>>>,
    <<"lines", [i \in 1..11 |-> IF i = 11 THEN WorkCwd ELSE NoCwd]>> }

existsSync(d, path) == path \in d

\* findGitRoot: walks up from path to the first directory with a .git entry;
\* the list of zero (null) or one directory
RECURSIVE findGitRoot(_, _)
findGitRoot(g, current) ==
  IF current = <<Slash>> THEN <<>>
  ELSE IF current \in g THEN <<current>>
  ELSE IF dirname(current) = current THEN <<>>
  ELSE findGitRoot(g, dirname(current))

\* the candidate of resolveProjectPath that splits off the last splitCount
\* parts as subdirectories
ProjectCandidate(basePath, parts, splitCount) ==
  IF splitCount = 0 THEN basePath \o <<Slash>> \o JoinWith(parts, Dash)
  ELSE basePath \o <<Slash>>
         \o JoinWith(SubSeq(parts, 1, Len(parts) - splitCount), Dash)
         \o <<Slash>>
         \o JoinWith(SubSeq(parts, Len(parts) - splitCount + 1, Len(parts)), Slash)

resolveProjectPath(d, basePath, projectPart) ==
  LET parts == SplitOn(projectPart, Dash)
      hits == {c \in 0..(Len(parts) - 1) :
                 existsSync(d, ProjectCandidate(basePath, parts, c))}
  IN IF hits # {}
     THEN ProjectCandidate(basePath, parts,
                           CHOOSE c \in hits : \A c2 \in hits : c <= c2)
     ELSE basePath \o <<Slash>> \o projectPart

\* extractCwdFromSessionFile: the first truthy cwd in the first ten lines;
\* the list of zero (null) or one
extractCwdFromSessionFile(lines) ==
  LET first == SubSeq(lines, 1, IF Len(lines) < 10 THEN Len(lines) ELSE 10)
      found == SelectSeq(first, LAMBDA cwd : cwd # NoCwd)
  IN IF found = <<>> THEN <<>> ELSE <<found[1]>>

\* the candidate of resolveFullPath that takes the first i parts as
\* directories and the rest as one name
FullCandidate(parts, i) ==
  <<Slash>> \o JoinWith(SubSeq(parts, 1, i), Slash) \o <<Slash>>
    \o JoinWith(SubSeq(parts, i + 1, Len(parts)), Dash)

resolveFullPath(d, encodedPath, sessionFile) ==
  LET parts == SplitOn(encodedPath, Dash)
      hits == {i \in 1..(Len(parts) - 1) : existsSync(d, FullCandidate(parts, i))}
      cwd == IF sessionFile = NoSessionFile THEN <<>>
             ELSE extractCwdFromSessionFile(sessionFile[2])
  IN IF hits # {}
     THEN FullCandidate(parts, CHOOSE i \in hits : \A i2 \in hits : i >= i2)
     ELSE IF cwd # <<>> THEN cwd[1]
     ELSE <<Slash>> \o DashesToSlashes(encodedPath)

\* /^(Users-[^-]+-src-a)-(.+)$/ and /^(Users-[^-]+-src-tries)-(.+)$/ on the
\* name without its leading dash: the list of zero or one <<base, rest>>
SrcMatch(str, marker) ==
  IF /\ Len(str) >= 9
     /\ str[1] = "Users" /\ str[2] = Dash
     /\ str[3] \notin {Dash} /\ str[4] = Dash
     /\ str[5] = "src" /\ str[6] = Dash
     /\ str[7] = marker /\ str[8] = Dash
  THEN <<<<SubSeq(str, 1, 7), SubSeq(str, 9, Len(str))>>>>
  ELSE <<>>

\* stripDatePrefix: /^\d{4}-\d{2}-\d{2}-/ removed
Digits4 == {"2025"}
Digits2 == {"12", "15"}
stripDatePrefix(name) ==
  IF /\ Len(name) >= 6
     /\ name[1] \in Digits4 /\ name[2] = Dash
     /\ name[3] \in Digits2 /\ name[4] = Dash
     /\ name[5] \in Digits2 /\ name[6] = Dash
  THEN SubSeq(name, 7, Len(name))
  ELSE name

\* path.split('/').pop() || 'unknown'
NameOf(path) ==
  IF LastSegment(path) = <<>> THEN <<"unknown">> ELSE LastSegment(path)

\* the path decodeProjectFolder resolves before it looks for a git root
decodedPathOf(d, folderName, sessionFile) ==
  LET withoutLeading == Tail(folderName)
      srcAMatch == SrcMatch(withoutLeading, "a")
      srcTriesMatch == SrcMatch(withoutLeading, "tries")
  IN IF srcAMatch # <<>>
     THEN resolveProjectPath(d, <<Slash>> \o DashesToSlashes(srcAMatch[1][1]),
                             srcAMatch[1][2])
     ELSE IF srcTriesMatch # <<>>
     THEN resolveProjectPath(d, <<Slash>> \o DashesToSlashes(srcTriesMatch[1][1]),
                             srcTriesMatch[1][2])
     ELSE resolveFullPath(d, HiddenFolders(withoutLeading), sessionFile)

decodeProjectFolder(d, g, folderName, sessionFile) ==
  LET decodedPath == decodedPathOf(d, folderName, sessionFile)
      isTriesProject == /\ SrcMatch(Tail(folderName), "a") = <<>>
                        /\ SrcMatch(Tail(folderName), "tries") # <<>>
      gitRoot == findGitRoot(g, decodedPath)
      strip(name) == IF isTriesProject THEN stripDatePrefix(name) ELSE name
  IN IF decodedPath = homedir
     THEN [path |-> decodedPath, name |-> <<"~">>]
     ELSE IF existsSync(d, decodedPath) /\ gitRoot # <<>>
     THEN [path |-> gitRoot[1], name |-> strip(NameOf(gitRoot[1]))]
     ELSE [path |-> decodedPath, name |-> strip(NameOf(decodedPath))]

\* getProjectInfo of codex-detector.ts for the cwd a Codex session declares
getProjectInfo(g, cwd) ==
  LET gitRoot == findGitRoot(g, cwd)
  IN IF gitRoot # <<>> /\ Len(gitRoot[1]) > 0
     THEN [path |-> gitRoot[1], name |-> LastSegment(gitRoot[1])]
     ELSE [path |-> cwd, name |-> LastSegment(cwd)]

\* The working directories a Codex session may declare.
CodexCwds ==
  { homedir,
    SrcA \o <<Slash, "my", Slash, "cool", Dash, "app">>,
    SrcA \o <<Slash, "my", Dash, "cool", Slash, "app">>,
    <<Slash, "opt", Slash, "my", Slash, "app">>,
    WorkCwd }

InitDecode ==
  /\ disk = {}
  /\ gits = {}
  /\ dcOut = <<>>

\* Someone creates a directory whose parent exists.
Mkdir(dir) ==
  /\ dcOut = <<>>
  /\ dir \notin disk
  /\ dirname(dir) = <<Slash>> \/ dirname(dir) \in disk
  /\ disk' = disk \cup {dir}
  /\ UNCHANGED <<gits, dcOut, pipeVars, rdVars, cxVars, pxVars, smVars, bqVars, rcVars>>

\* Someone makes an existing directory a repository.
GitInit(dir) ==
  /\ dcOut = <<>>
  /\ dir \in disk
  /\ dir \notin gits
  /\ Cardinality(gits) < MaxGitRoots
  /\ gits' = gits \cup {dir}
  /\ UNCHANGED <<disk, dcOut, pipeVars, rdVars, cxVars, pxVars, smVars, bqVars, rcVars>>

\* findAllSessionFiles resolves one project folder.
DecodeFolder(folderName, sessionFile) ==
  /\ dcOut = <<>>
  /\ dcOut' = <<[by |-> "claude", folderName |-> folderName,
                 sessionFile |-> sessionFile, cwd |-> <<>>,
                 decodedPath |-> decodedPathOf(disk, folderName, sessionFile),
                 identity |-> decodeProjectFolder(disk, gits, folderName, sessionFile)]>>
  /\ UNCHANGED <<disk, gits, pipeVars, rdVars, cxVars, pxVars, smVars, bqVars, rcVars>>

\* findAllCodexSessionFiles resolves the cwd of one session.
CodexProjectInfo(cwd) ==
  /\ dcOut = <<>>
  /\ dcOut' = <<[by |-> "codex", folderName |-> <<>>,
                 sessionFile |-> NoSessionFile, cwd |-> cwd,
                 decodedPath |-> cwd,
                 identity |-> getProjectInfo(gits, cwd)]>>
  /\ UNCHANGED <<disk, gits, pipeVars, rdVars, cxVars, pxVars, smVars, bqVars, rcVars>>

NextDecode ==
  \/ \E dir \in Dirs : Mkdir(dir)
  \/ \E dir \in Dirs : GitInit(dir)
  \/ \E folderName \in FolderNames, sessionFile \in SessionFiles :
       DecodeFolder(folderName, sessionFile)
  \/ \E cwd \in CodexCwds : CodexProjectInfo(cwd)

\* --------------------------------------------- processCommand: the batch loop
\* The loop of processCommand over `sessions`, by position: which
\* processSession calls have started and which have settled.  Positions are
\* 0-based, as the loop index i is.
MaxSessions == CONCURRENCY + MaxExtra

\* sessions.slice(i, i + CONCURRENCY), as positions
SliceOf(n, i) == {k \in 0..(n - 1) : k >= i /\ k < i + CONCURRENCY}

\* batch.map(async ...): every call of the batch starts before the first await
StartSlice(tasks, n, i) ==
  [k \in 0..(n - 1) |-> IF k \in SliceOf(n, i) THEN "running" ELSE tasks[k]]

\* Variant: the loop goes on as soon as one call of the batch has settled.
BatchSettled_Any(tasks, n, i) ==
  \E k \in SliceOf(n, i) : tasks[k] \in {"done", "failed"}

\* await Promise.all(...): every call of the batch has settled (a call that
\* throws is caught inside the callback and settles as well)
BatchSettled(tasks, n, i) ==
  \A k \in SliceOf(n, i) : tasks[k] \in {"done", "failed"}

InitBatches ==
  /\ bqN = 0
  /\ bqI = 0
  /\ bqTask = <<>>
  /\ bqResults = 0

\* processCommand finds n sessions to process and starts the first batch.
BqSelect(n) ==
  /\ bqN = 0
  /\ bqN' = n
  /\ bqI' = 0
  /\ bqTask' = StartSlice([k \in 0..(n - 1) |-> "pending"], n, 0)
  /\ bqResults' = 0
  /\ UNCHANGED <<pipeVars, rdVars, cxVars, pxVars, smVars, dcVars, rcVars>>

\* One processSession call returns or throws.
BqSettle(k, threw) ==
  /\ bqN > 0
  /\ k \in DOMAIN bqTask
  /\ bqTask[k] = "running"
  /\ bqTask' = [bqTask EXCEPT ![k] = IF threw THEN "failed" ELSE "done"]
  /\ UNCHANGED <<bqN, bqI, bqResults, pipeVars, rdVars, cxVars, pxVars, smVars, dcVars, rcVars>>

\* Promise.all resolves: the results are pushed and the loop starts the next
\* batch, if there is one.
BqNextBatch ==
  /\ bqN > 0
  /\ bqI < bqN
  /\ BatchSettled(bqTask, bqN, bqI)
  /\ bqResults' = bqResults + Cardinality(SliceOf(bqN, bqI))
  /\ bqI' = bqI + CONCURRENCY
  /\ bqTask' = IF bqI + CONCURRENCY < bqN
               THEN StartSlice(bqTask, bqN, bqI + CONCURRENCY)
               ELSE bqTask
  /\ UNCHANGED <<bqN, pipeVars, rdVars, cxVars, pxVars, smVars, dcVars, rcVars>>

NextBatches ==
  \/ \E n \in 1..MaxSessions : BqSelect(n)
  \/ \E k \in 0..(MaxSessions - 1), threw \in BOOLEAN : BqSettle(k, threw)
  \/ BqNextBatch

\* --------------------------------------------------------------- discovery
\* Identity of a discovered file.  File 3 is a second copy of session 1 (the
\* same session reachable under a second config root); file 2 is a Codex file.
SessionIdOf(p) == IF p = 3 THEN 1 ELSE p
ProjectOf(p) == IF p = 2 THEN 2 ELSE 1
SourceOf(p) == IF p = 2 THEN "codex" ELSE "claude"

\* MD5 of the content: distinct contents get distinct digests; the
\* modification time is not part of the content.
computeFileHash(c) == 2 * c.day + (IF c.edits THEN 1 ELSE 0)

RECURSIVE SortNewestFirst(_, _)
SortNewestFirst(S, f) ==
  IF S = {} THEN <<>>
  ELSE LET p == CHOOSE x \in S : \A y \in S :
                  \/ f[x].mtime > f[y].mtime
                  \/ f[x].mtime = f[y].mtime /\ x <= y
       IN <<p>> \o SortNewestFirst(S \ {p}, f)

SessionFile(p, f, h) ==
  [path |-> p, projectPath |-> ProjectOf(p), sessionId |-> SessionIdOf(p),
   modifiedAt |-> f[p].mtime, fileHash |-> h, source |-> SourceOf(p)]

findAllSessionFiles(f) ==
  LET order == SortNewestFirst(Files, f)
  IN [i \in 1..Len(order) |-> SessionFile(order[i], f, 0)]

\* ------------------------------------------------------------------ ledger
\* Variant: any row for the path counts, whatever its hash.
isFileProcessed_PathOnly(L, filePath, fileHash) ==
  \E r \in L : r.file_path = filePath

isFileProcessed(L, filePath, fileHash) ==
  LET rows == {r \in L : r.file_path = filePath}
  IN rows # {} /\ (CHOOSE r \in rows : TRUE).file_hash = fileHash

\* Variant: a plain INSERT that keeps the rows already there.
markFileProcessed_Insert(L, filePath, fileHash) ==
  L \cup {[file_path |-> filePath, file_hash |-> fileHash]}

markFileProcessed(L, filePath, fileHash) ==
  {r \in L : r.file_path # filePath}
    \cup {[file_path |-> filePath, file_hash |-> fileHash]}

Unprocessed(L, s) == ~isFileProcessed(L, s.path, s.fileHash)

findUnprocessedSessions(force, f, L) ==
  LET all == findAllSessionFiles(f)
      hashed == [i \in 1..Len(all) |->
                   [all[i] EXCEPT !.fileHash = computeFileHash(f[all[i].path])]]
  IN IF force THEN hashed
     ELSE SelectSeq(hashed, LAMBDA s : Unprocessed(L, s))

\* ------------------------------------------------------------------- store
\* Variant: a plain INSERT that keeps the rows already there.
saveSessionSummary_Insert(S, parsed, source) ==
  S \cup {[session_id |-> parsed.sessionId, project_path |-> parsed.projectPath,
           date |-> parsed.date, source |-> source]}

saveSessionSummary(S, parsed, source) ==
  {r \in S : r.session_id # parsed.sessionId}
    \cup {[session_id |-> parsed.sessionId, project_path |-> parsed.projectPath,
           date |-> parsed.date, source |-> source]}

Min2(a, b) == IF a < b THEN a ELSE b
Max2(a, b) == IF a > b THEN a ELSE b

upsertProjectFromSession(P, S, projectPath, projectName, sessionDate) ==
  LET old == {r \in P : r.project_path = projectPath}
  IN IF old = {}
     THEN P \cup {[project_path |-> projectPath, project_name |-> projectName,
                   first |-> sessionDate, last |-> sessionDate, total |-> 1]}
     ELSE (P \ old) \cup
          {[project_path |-> projectPath,
            project_name |-> IF projectName = <<>> THEN r.project_name
                             ELSE projectName,
            first |-> Min2(r.first, sessionDate),
            last |-> Max2(r.last, sessionDate),
            total |-> Cardinality({s \in S : s.project_path = projectPath})]
           : r \in old}

getSessionsForDate(S, date) == {r \in S : r.date = date}
getDatesWithoutBragSummary(S, D) == {r.date : r \in S} \ D
saveDailySummary(D, dates) == D \cup dates

\* ------------------------------------------------------------ processCommand
NoFilter == [type |-> "none", start |-> 0, end |-> 0]
Filters ==
  {NoFilter}
    \cup {[type |-> "date", start |-> d, end |-> d] : d \in Days}
    \cup {[type |-> "range", start |-> d, end |-> d + WeekSpan] : d \in Days}

isDateInRange(date, start, end) == date >= start /\ date <= end

MatchesFilter(filter, date) ==
  IF filter.type = "date" THEN date = filter.start
  ELSE isDateInRange(date, filter.start, filter.end)

PreFilter(filter, seq) ==
  IF filter.type = "none" THEN seq
  ELSE SelectSeq(seq, LAMBDA s :
         /\ s.modifiedAt >= filter.start - bufferDays
         /\ s.modifiedAt <= filter.end + bufferDays)

\* stats.toolCalls of a transcript: one with a code change has edited one
\* file after reading two, one without has only read and run commands.
ToolCallsOf(c) ==
  IF c.edits THEN ("Read" :> 2 @@ "Edit" :> 1) ELSE ("Read" :> 1 @@ "Bash" :> 2)

\* What the parser returns for a file, as far as processSession reads it.
ParseSession(p, c) ==
  [sessionId |-> SessionIdOf(p), projectPath |-> ProjectOf(p),
   projectName |-> <<ProjectOf(p)>>, date |-> c.day,
   toolCalls |-> ToolCallsOf(c)]

codeChangeTools == {"Edit", "Write", "NotebookEdit", "MultiEdit"}

\* Variant: any tool call counts as work.
hasCodeChanges_AnyTool(tools) ==
  \E tool \in DOMAIN tools : tools[tool] > 0

\* codeChangeTools.some(tool => (tools[tool] || 0) > 0)
hasCodeChanges(tools) ==
  \E tool \in codeChangeTools : tool \in DOMAIN tools /\ tools[tool] > 0

NoParse == [sessionId |-> 0, projectPath |-> 0, projectName |-> <<>>, date |-> 0,
            toolCalls |-> <<>>]
Idle == [st |-> "none", parsed |-> NoParse]
Final == {"error", "filtered", "skipped", "ok"}

BatchOf(seq, i) ==
  {seq[k].path : k \in {j \in 1..Len(seq) : j >= i /\ j < i + CONCURRENCY}}

StartBatch(seq, i) ==
  [p \in Files |-> IF p \in BatchOf(seq, i)
                   THEN [st |-> "parsing", parsed |-> NoParse] ELSE Idle]

SessionAt(p) == sessions[CHOOSE k \in 1..Len(sessions) : sessions[k].path = p]

NoRet == [kind |-> "none", sessionsProcessed |-> 0, errors |-> 0]
NoOpts == [force |-> FALSE, filter |-> NoFilter]

InitPipeline ==
  /\ fs = [p \in Files |->
             [edits |-> (p # 2), day |-> IF p = 3 THEN MaxDay ELSE 1,
              mtime |-> IF p = 3 THEN MaxDay ELSE 1]]
  /\ edited = 0
  /\ runs = 0
  /\ ledger = {}
  /\ store = {}
  /\ projects = {}
  /\ daily = {}
  /\ pc = "idle"
  /\ opts = NoOpts
  /\ sessions = <<>>
  /\ batchStart = 1
  /\ task = [p \in Files |-> Idle]
  /\ results = <<>>
  /\ ret = NoRet
  /\ marks = [p \in Files |-> <<>>]
  /\ parsedOk = {}

NoRaceRet == [sessionsProcessed |-> 0, errors |-> 0]

InitRace ==
  /\ rcPc = "idle"
  /\ rcPlan = <<>>
  /\ rcFilter = NoFilter
  /\ rcTask = <<>>
  /\ rcDb = [ledger |-> {}, store |-> {}, projects |-> {}]
  /\ rcRet = NoRaceRet

Init ==
  /\ InitPipeline /\ InitReader /\ InitCodex /\ InitPatch /\ InitSummary
  /\ InitDecode /\ InitBatches /\ InitRace

\* A session file is written to, or touched, by its producer.
EditFile(p, c) ==
  /\ UNCHANGED <<rdVars, cxVars, pxVars, smVars, dcVars, bqVars, rcVars>>
  /\ edited < MaxEdits
  /\ c # fs[p]
  /\ fs' = [fs EXCEPT ![p] = c]
  /\ edited' = edited + 1
  /\ UNCHANGED <<runs, ledger, store, projects, daily, pc, opts, sessions,
                 batchStart, task, results, ret, marks, parsedOk>>

\* processCommand up to the return of findUnprocessedSessions.  Reading a
\* file for its hash may fail; nothing catches that rejection.  The locals
\* of a call (opts, sessions, results) are gone once the call is over.
Scan(force, filter, readFails) ==
  /\ UNCHANGED <<rdVars, cxVars, pxVars, smVars, dcVars, bqVars, rcVars>>
  /\ pc = "idle"
  /\ runs < MaxRuns
  /\ runs' = runs + 1
  /\ IF readFails
     THEN /\ ret' = [NoRet EXCEPT !.kind = "threw"]
          /\ opts' = NoOpts
          /\ sessions' = <<>>
          /\ pc' = "idle"
     ELSE /\ ret' = NoRet
          /\ opts' = [force |-> force, filter |-> filter]
          /\ sessions' = findUnprocessedSessions(force, fs, ledger)
          /\ pc' = "scanned"
  /\ results' = <<>>
  /\ batchStart' = 1
  /\ task' = [p \in Files |-> Idle]
  /\ UNCHANGED <<fs, edited, ledger, store, projects, daily, marks, parsedOk>>

\* The modification-time pre-filter, the empty check and the start of the
\* first batch.
Launch ==
  /\ UNCHANGED <<rdVars, cxVars, pxVars, smVars, dcVars, bqVars, rcVars>>
  /\ pc = "scanned"
  /\ LET kept == PreFilter(opts.filter, sessions)
     IN IF Len(kept) = 0
        THEN /\ pc' = "idle"
             /\ ret' = [NoRet EXCEPT !.kind = "returned"]
             /\ opts' = NoOpts
             /\ sessions' = <<>>
             /\ task' = task
        ELSE /\ pc' = "batch"
             /\ ret' = ret
             /\ opts' = opts
             /\ sessions' = kept
             /\ task' = StartBatch(kept, 1)
  /\ UNCHANGED <<fs, edited, runs, ledger, store, projects, daily, batchStart,
                 results, marks, parsedOk>>

\* Variant: a session the date filter rejects is marked processed.
AfterParse_MarkFiltered(L, sf, filter, parsed) ==
  IF filter.type # "none" /\ ~MatchesFilter(filter, parsed.date)
  THEN [st |-> "filtered", ledger |-> markFileProcessed(L, sf.path, sf.fileHash),
        marked |-> TRUE]
  ELSE IF ~hasCodeChanges(parsed.toolCalls)
  THEN [st |-> "skipped", ledger |-> markFileProcessed(L, sf.path, sf.fileHash),
        marked |-> TRUE]
  ELSE [st |-> "summarizing", ledger |-> L, marked |-> FALSE]

\* processSession from the parser's return to the first of: the date filter
\* rejecting, the no-code-change return, the call of the summarizer.
AfterParse(L, sf, filter, parsed) ==
  IF filter.type # "none" /\ ~MatchesFilter(filter, parsed.date)
  THEN [st |-> "filtered", ledger |-> L, marked |-> FALSE]
  ELSE IF ~hasCodeChanges(parsed.toolCalls)
  THEN [st |-> "skipped", ledger |-> markFileProcessed(L, sf.path, sf.fileHash),
        marked |-> TRUE]
  ELSE [st |-> "summarizing", ledger |-> L, marked |-> FALSE]

\* Variant: the ledger entry is written before the summary row.
AfterSummary_MarkFirst(L, S, P, sf, parsed, noWork, failAt) ==
  LET marked == markFileProcessed(L, sf.path, sf.fileHash)
  IN IF noWork
     THEN [st |-> "skipped", ledger |-> marked, store |-> S, projects |-> P,
           marked |-> TRUE]
     ELSE IF failAt = "save"
     THEN [st |-> "error", ledger |-> marked, store |-> S, projects |-> P,
           marked |-> TRUE]
     ELSE LET saved == saveSessionSummary(S, parsed, sf.source)
          IN IF failAt = "upsert"
             THEN [st |-> "error", ledger |-> marked, store |-> saved,
                   projects |-> P, marked |-> TRUE]
             ELSE [st |-> "ok", ledger |-> marked, store |-> saved,
                   projects |-> upsertProjectFromSession(P, saved,
                                  parsed.projectPath, parsed.projectName,
                                  parsed.date),
                   marked |-> TRUE]

\* processSession from the summarizer's answer to its return.  The summary
\* may be classed as no-work; failAt names the database write that throws.
AfterSummary(L, S, P, sf, parsed, noWork, failAt) ==
  IF noWork
  THEN [st |-> "skipped", ledger |-> markFileProcessed(L, sf.path, sf.fileHash),
        store |-> S, projects |-> P, marked |-> TRUE]
  ELSE IF failAt = "save"
  THEN [st |-> "error", ledger |-> L, store |-> S, projects |-> P, marked |-> FALSE]
  ELSE LET saved == saveSessionSummary(S, parsed, sf.source)
       IN IF failAt = "upsert"
          THEN [st |-> "error", ledger |-> L, store |-> saved, projects |-> P,
                marked |-> FALSE]
          ELSE [st |-> "ok",
                ledger |-> markFileProcessed(L, sf.path, sf.fileHash),
                store |-> saved,
                projects |-> upsertProjectFromSession(P, saved,
                               parsed.projectPath, parsed.projectName,
                               parsed.date),
                marked |-> TRUE]

Marked(p, out, sf) ==
  IF out.marked THEN [marks EXCEPT ![p] = Append(@, sf.fileHash)] ELSE marks

\* One task of the batch: the parser returns or throws.
ParseDone(p, throws) ==
  /\ UNCHANGED <<rdVars, cxVars, pxVars, smVars, dcVars, bqVars, rcVars>>
  /\ pc = "batch"
  /\ task[p].st = "parsing"
  /\ IF throws
     THEN /\ task' = [task EXCEPT ![p].st = "error"]
          /\ UNCHANGED <<ledger, marks, parsedOk>>
     ELSE LET parsed == ParseSession(p, fs[p])
              sf == SessionAt(p)
              out == AfterParse(ledger, sf, opts.filter, parsed)
          IN /\ parsedOk' = parsedOk \cup {p}
             /\ ledger' = out.ledger
             /\ marks' = Marked(p, out, sf)
             /\ task' = [task EXCEPT ![p] = [st |-> out.st, parsed |-> parsed]]
  /\ UNCHANGED <<fs, edited, runs, store, projects, daily, pc, opts, sessions,
                 batchStart, results, ret>>

\* One task of the batch: the summarizer has answered.
SummarizeDone(p, noWork, failAt) ==
  /\ UNCHANGED <<rdVars, cxVars, pxVars, smVars, dcVars, bqVars, rcVars>>
  /\ pc = "batch"
  /\ task[p].st = "summarizing"
  /\ noWork => failAt = "none"
  /\ LET sf == SessionAt(p)
         out == AfterSummary(ledger, store, projects, sf, task[p].parsed,
                             noWork, failAt)
     IN /\ ledger' = out.ledger
        /\ store' = out.store
        /\ projects' = out.projects
        /\ marks' = Marked(p, out, sf)
        /\ task' = [task EXCEPT ![p].st = out.st]
  /\ UNCHANGED <<fs, edited, runs, daily, pc, opts, sessions, batchStart,
                 results, ret, parsedOk>>

\* Promise.all of the batch has resolved: push the batch's results and start
\* the next batch, or leave the loop.
BatchEnd ==
  /\ UNCHANGED <<rdVars, cxVars, pxVars, smVars, dcVars, bqVars, rcVars>>
  /\ pc = "batch"
  /\ \A p \in BatchOf(sessions, batchStart) : task[p].st \in Final
  /\ LET idx == {k \in 1..Len(sessions) :
                   k >= batchStart /\ k < batchStart + CONCURRENCY}
         batchResults == [j \in 1..Cardinality(idx) |->
            LET s == sessions[batchStart + j - 1]
            IN [session |-> s.path, kind |-> task[s.path].st,
                date |-> task[s.path].parsed.date]]
         next == batchStart + CONCURRENCY
     IN /\ results' = results \o batchResults
        /\ batchStart' = next
        /\ IF next <= Len(sessions)
           THEN /\ pc' = "batch"
                /\ task' = StartBatch(sessions, next)
           ELSE /\ pc' = "tally"
                /\ task' = [p \in Files |-> Idle]
  /\ UNCHANGED <<fs, edited, runs, ledger, store, projects, daily, opts, sessions,
                 ret, marks, parsedOk>>

CountKind(res, kind) == Cardinality({k \in 1..Len(res) : res[k].kind = kind})

\* The tally over the results, the regeneration of the daily summaries and the
\* return.  generateDailyBragSummary catches a failed generation and returns a
\* fallback text, so every date of allDates that has sessions gets its row.
Tally ==
  /\ UNCHANGED <<rdVars, cxVars, pxVars, smVars, dcVars, bqVars, rcVars>>
  /\ pc = "tally"
  /\ LET datesProcessed ==
           {results[k].date : k \in {j \in 1..Len(results) : results[j].kind = "ok"}}
         allDates == datesProcessed \cup getDatesWithoutBragSummary(store, daily)
         regenerated == {d \in allDates : getSessionsForDate(store, d) # {}}
     IN daily' = saveDailySummary(daily, regenerated)
  /\ ret' = [kind |-> "returned",
             sessionsProcessed |-> CountKind(results, "ok"),
             errors |-> CountKind(results, "error")]
  /\ pc' = "idle"
  /\ opts' = NoOpts
  /\ sessions' = <<>>
  /\ results' = <<>>
  /\ batchStart' = 1
  /\ UNCHANGED <<fs, edited, runs, ledger, store, projects, task, marks,
                 parsedOk>>

\* The host interrupts the run: the process ends where it is.
Abandon ==
  /\ UNCHANGED <<rdVars, cxVars, pxVars, smVars, dcVars, bqVars, rcVars>>
  /\ pc \in {"scanned", "batch", "tally"}
  /\ pc' = "idle"
  /\ ret' = [NoRet EXCEPT !.kind = "killed"]
  /\ task' = [p \in Files |-> Idle]
  /\ opts' = NoOpts
  /\ sessions' = <<>>
  /\ results' = <<>>
  /\ batchStart' = 1
  /\ UNCHANGED <<fs, edited, runs, ledger, store, projects, daily, marks,
                 parsedOk>>

\* ------------------------------------- one batch, every order of completion
\* A fixed set of selected files processed as one batch on an empty database:
\* the files, what their parse returns and what happens to each of them (the
\* summarizer's verdict, a write that throws) are chosen once, and the tasks
\* then reach their awaits in every order.
TriesTodo == SrcTries \o <<Slash, "2025", Dash, "12", Dash, "15", Dash, "todo">>

\* Where a selected file comes from: a Claude folder or the cwd of a Codex
\* session, with the project identity discovery derives from it when every
\* directory of Dirs exists and none is a repository.
RaceOrigins ==
  { [source |-> "claude",
     identity |-> decodeProjectFolder(Dirs, {},
        <<Dash, "Users", Dash, "u", Dash, "src", Dash, "tries", Dash,
          "2025", Dash, "12", Dash, "15", Dash, "todo">>, NoSessionFile)],
    [source |-> "codex", identity |-> getProjectInfo({}, TriesTodo)],
    [source |-> "codex",
     identity |-> getProjectInfo({}, <<Slash, "opt", Slash, "my", Slash, "app">>)] }

Fates == {"ok", "noWork", "failSave", "failUpsert", "parseThrows"}

RaceFile ==
  [origin : RaceOrigins, day : Days, edits : BOOLEAN, fate : Fates]

RaceFilters == {NoFilter, [type |-> "date", start |-> 1, end |-> 1]}

RaceSessionFile(f, k) ==
  [path |-> k, fileHash |-> computeFileHash(f), source |-> f.origin.source]

RaceParse(f, k) ==
  [sessionId |-> k, projectPath |-> f.origin.identity.path,
   projectName |-> f.origin.identity.name, date |-> f.day,
   toolCalls |-> ToolCallsOf(f)]

FailAtOf(fate) ==
  IF fate = "failSave" THEN "save"
  ELSE IF fate = "failUpsert" THEN "upsert" ELSE "none"

\* processCommand has selected the files and started the batch.
RcSelect(plan, filter) ==
  /\ rcPc = "idle"
  /\ rcPc' = "batch"
  /\ rcPlan' = plan
  /\ rcFilter' = filter
  /\ rcTask' = [k \in 1..Len(plan) |-> "parsing"]
  /\ UNCHANGED <<rcDb, rcRet>>
  /\ UNCHANGED <<pipeVars, rdVars, cxVars, pxVars, smVars, dcVars, bqVars>>

\* The parse of file k is over: processSession runs to its next await or to
\* its return.
RcParseDone(k) ==
  /\ rcPc = "batch"
  /\ k \in 1..Len(rcPlan)
  /\ rcTask[k] = "parsing"
  /\ IF rcPlan[k].fate = "parseThrows"
     THEN /\ rcTask' = [rcTask EXCEPT ![k] = "error"]
          /\ rcDb' = rcDb
     ELSE LET out == AfterParse(rcDb.ledger, RaceSessionFile(rcPlan[k], k),
                                rcFilter, RaceParse(rcPlan[k], k))
          IN /\ rcTask' = [rcTask EXCEPT ![k] = out.st]
             /\ rcDb' = [rcDb EXCEPT !.ledger = out.ledger]
  /\ UNCHANGED <<rcPc, rcPlan, rcFilter, rcRet>>
  /\ UNCHANGED <<pipeVars, rdVars, cxVars, pxVars, smVars, dcVars, bqVars>>

\* The summarizer has answered for file k: processSession runs to its return.
RcSummarizeDone(k) ==
  /\ rcPc = "batch"
  /\ k \in 1..Len(rcPlan)
  /\ rcTask[k] = "summarizing"
  /\ LET out == AfterSummary(rcDb.ledger, rcDb.store, rcDb.projects,
                             RaceSessionFile(rcPlan[k], k),
                             RaceParse(rcPlan[k], k),
                             rcPlan[k].fate = "noWork", FailAtOf(rcPlan[k].fate))
     IN /\ rcTask' = [rcTask EXCEPT ![k] = out.st]
        /\ rcDb' = [ledger |-> out.ledger, store |-> out.store,
                    projects |-> out.projects]
  /\ UNCHANGED <<rcPc, rcPlan, rcFilter, rcRet>>
  /\ UNCHANGED <<pipeVars, rdVars, cxVars, pxVars, smVars, dcVars, bqVars>>

RaceCount(tasks, kind) ==
  Cardinality({k \in 1..Len(tasks) : tasks[k] = kind})

\* Promise.all has resolved and the results are tallied.
RcTally ==
  /\ rcPc = "batch"
  /\ \A k \in 1..Len(rcTask) : rcTask[k] \in Final
  /\ rcPc' = "done"
  /\ rcRet' = [sessionsProcessed |-> RaceCount(rcTask, "ok"),
               errors |-> RaceCount(rcTask, "error")]
  /\ UNCHANGED <<rcPlan, rcFilter, rcTask, rcDb>>
  /\ UNCHANGED <<pipeVars, rdVars, cxVars, pxVars, smVars, dcVars, bqVars>>

NextRace ==
  \/ \E n \in 1..RaceFiles, filter \in RaceFilters :
       \E plan \in [1..n -> RaceFile] : RcSelect(plan, filter)
  \/ \E k \in 1..RaceFiles : RcParseDone(k)
  \/ \E k \in 1..RaceFiles : RcSummarizeDone(k)
  \/ RcTally

Next ==
  \/ \E p \in Files, c \in FileStates : EditFile(p, c)
  \/ \E force \in BOOLEAN, filter \in Filters, readFails \in BOOLEAN :
       Scan(force, filter, readFails)
  \/ Launch
  \/ \E p \in Files, throws \in BOOLEAN : ParseDone(p, throws)
  \/ \E p \in Files, noWork \in BOOLEAN, failAt \in {"none", "save", "upsert"} :
       SummarizeDone(p, noWork, failAt)
  \/ BatchEnd
  \/ Tally
  \/ Abandon

Spec == Init /\ [][Next]_vars

SpecReader == Init /\ [][NextReader]_vars

SpecCodex == Init /\ [][NextCodex]_vars

\* processSession hands a file to exactly one parser, chosen by the source
\* family of the file: session.source === 'codex' ? parseCodexSessionFile
\* : parseSessionFile.
NextParsers ==
  \/ cxIn = <<>> /\ cxOut = <<>> /\ NextReader
  \/ rdIn = <<>> /\ rdOut = <<>> /\ NextCodex

SpecParsers == Init /\ [][NextParsers]_vars

SpecPatch == Init /\ [][NextPatch]_vars

SpecSummary == Init /\ [][NextSummary]_vars

SpecDecode == Init /\ [][NextDecode]_vars

SpecBatches == Init /\ [][NextBatches]_vars

SpecRace == Init /\ [][NextRace]_vars

\* ================================================================== claims
Hashes == {computeFileHash(c) : c \in FileStates}
Selected(seq) == {seq[k].path : k \in 1..Len(seq)}
RowsFor(L, p) == {r \in L : r.file_path = p}
LastMark(p) == IF marks[p] = <<>> THEN 0 ELSE marks[p][Len(marks[p])]
ScanStep == pc = "idle" /\ pc' = "scanned"
\* the hash markFileProcessed is called with in this step for path p, if any
MarkCall(p) == Len(marks'[p]) = Len(marks[p]) + 1

\* C1: without force, findUnprocessedSessions selects a discovered file iff
\* the ledger has no row for its path or the row's hash differs from the
\* file's current hash; and isFileProcessed(path, hash) is true exactly when
\* the last hash recorded for the path equals hash.
C1_SelectsIffHashDiffers ==
  /\ [](\A p \in Files, h \in Hashes :
          isFileProcessed(ledger, p, h) <=> LastMark(p) = h)
  /\ [][(ScanStep /\ ~opts'.force) =>
          \A p \in Files :
            p \in Selected(sessions') <=>
              \/ RowsFor(ledger, p) = {}
              \/ \E r \in RowsFor(ledger, p) : r.file_hash # computeFileHash(fs[p])]_vars

\* a scan without force that selects a file recorded under an older hash and
\* leaves out a file recorded under its current hash
C1_Witness ==
  /\ pc = "scanned" /\ ~opts.force
  /\ \E p \in Selected(sessions) :
       RowsFor(ledger, p) # {} /\ LastMark(p) # computeFileHash(fs[p])
  /\ \E q \in Files \ Selected(sessions) : LastMark(q) = computeFileHash(fs[q])

\* C2: after a run has marked a file, a later run without force over the
\* unchanged file does not select it, and the store never holds two summary
\* rows for one session id.
C2_NoDoubleCount ==
  /\ [](\A r1 \in store, r2 \in store : r1.session_id = r2.session_id => r1 = r2)
  /\ [][(ScanStep /\ ~opts'.force) =>
          \A p \in Files :
            [file_path |-> p, file_hash |-> computeFileHash(fs[p])] \in ledger
              => p \notin Selected(sessions')]_vars

\* the second run has scanned, a session saved and marked by the first run is
\* unchanged and is not selected again
C2_Witness ==
  /\ pc = "scanned" /\ ~opts.force /\ runs = 2
  /\ \E p \in Files :
       /\ LastMark(p) = computeFileHash(fs[p])
       /\ p \notin Selected(sessions)
       /\ \E r \in store : r.session_id = SessionIdOf(p)

\* C3: a path is in the ledger only if processSession finished parsing that
\* file; when a session that is to be stored is marked, its summary row is in
\* the store; a file whose processing throws is not marked by that task.
C3_MarkOnlyAfterParseAndSave ==
  /\ [](\A r \in ledger : r.file_path \in parsedOk)
  /\ [][\A p \in Files :
          /\ (task[p].st = "summarizing" /\ task'[p].st # "skipped" /\ MarkCall(p))
               => \E r \in store' : r.session_id = task[p].parsed.sessionId
          /\ (task'[p].st = "error" /\ pc' = "batch")
               => (~MarkCall(p) /\ RowsFor(ledger', p) = RowsFor(ledger, p))]_vars

\* one file of the batch was saved and marked while another one failed and
\* has no ledger row
C3_Witness ==
  /\ pc = "batch"
  /\ \E p \in Files, q \in Files :
       /\ task[p].st = "ok" /\ RowsFor(ledger, p) # {}
       /\ \E r \in store : r.session_id = task[p].parsed.sessionId
       /\ task[q].st = "error" /\ RowsFor(ledger, q) = {}

\* C4 (as claimed): whatever fails for one file, processCommand returns;
\* every selected file has a result and the returned errors count is the
\* number of files whose handling failed.
C4_EveryFileHandled ==
  /\ [](ret.kind # "threw")
  /\ [](pc = "tally" => Len(results) = Len(sessions))
  /\ [][(pc = "tally" /\ ret'.kind = "returned") =>
          ret'.errors = Cardinality({p \in Selected(sessions) :
                           \E k \in 1..Len(results) :
                             results[k].session = p /\ results[k].kind = "error"})]_vars

\* C5: a repeated markFileProcessed(path, hash) leaves the ledger as it was
\* after the first call; the ledger has at most one row per path, and the
\* row holds the hash of the most recent call for that path.
C5_MarkIdempotentLastWins ==
  /\ [](\A p \in Files :
          RowsFor(ledger, p) =
            IF marks[p] = <<>> THEN {}
            ELSE {[file_path |-> p, file_hash |-> LastMark(p)]})
  /\ [][\A p \in Files :
          (MarkCall(p) /\ LastMark(p)' = LastMark(p)) => ledger' = ledger]_vars

\* the same path was marked twice with the same hash and once with another
C5_Witness ==
  \E p \in Files, q \in Files :
    /\ Len(marks[p]) = 2 /\ marks[p][1] = marks[p][2]
    /\ Len(marks[q]) = 2 /\ marks[q][1] # marks[q][2]

InputUuids == {rdIn[i].uuid : i \in 1..Len(rdIn)}
\* the timestamps carried by the records that were not discarded
SeenTimes(messages) ==
  {messages[i].timestamp : i \in 1..Len(messages)} \cap Times
MinOf(S) == CHOOSE x \in S : \A y \in S : x <= y
MaxOf(S) == CHOOSE x \in S : \A y \in S : x >= y

\* C6 (as claimed): in the ParsedSession that parseSessionFile returns,
\* records sharing one uuid contribute a single message, so there are no more
\* messages (and no more counted user/assistant records) than distinct uuids.
C6_OneMessagePerUuid ==
  rdOut # <<>> =>
    /\ Len(rdOut[1].messages) <= Cardinality(InputUuids)
    /\ rdOut[1].stats.userMessages + rdOut[1].stats.assistantMessages
         <= Cardinality(InputUuids)

\* C7 (as claimed): a record is discarded only when an earlier record has its
\* uuid, so every distinct uuid of the file contributes a message, whatever
\* the embedded message ids are.
C7_DiscardOnlyOnSameUuid ==
  rdOut # <<>> => Len(rdOut[1].messages) >= Cardinality(InputUuids)

\* C8 (as claimed): when a record that was read carries a timestamp,
\* startTime is the minimum and endTime the maximum of the timestamps read;
\* records without a timestamp, or with an empty one, change neither.
C8_StartMinEndMax ==
  (rdOut # <<>> /\ SeenTimes(rdOut[1].messages) # {}) =>
    /\ rdOut[1].startTime = MinOf(SeenTimes(rdOut[1].messages))
    /\ rdOut[1].endTime = MaxOf(SeenTimes(rdOut[1].messages))

\* C9 (as claimed): every ParsedSession returned has startTime <= endTime.
C9_StartNotAfterEnd ==
  rdOut # <<>> => rdOut[1].startTime <= rdOut[1].endTime

\* the token_count events of the input that carry total_token_usage
TokenEvents ==
  SelectSeq(cxIn, LAMBDA e : e.shape.type = "event_msg"
                             /\ e.shape.ptype = "token_count" /\ e.shape.usage # <<>>)

\* C10: the token totals parseCodexSessionFile returns are those of the last
\* token_count event carrying total_token_usage (zero when there is none):
\* a snapshot replaces the totals, an event without a snapshot changes nothing.
C10_LastTokenCountWins ==
  cxOut # <<>> =>
    IF TokenEvents = <<>>
    THEN /\ cxOut[1].stats.totalInputTokens = 0
         /\ cxOut[1].stats.totalOutputTokens = 0
    ELSE LET u == TokenEvents[Len(TokenEvents)].shape.usage[1]
         IN /\ cxOut[1].stats.totalInputTokens
                 = u.input_tokens + OrZero(u.cached_input_tokens)
            /\ cxOut[1].stats.totalOutputTokens
                 = u.output_tokens + OrZero(u.reasoning_output_tokens)

\* events reporting (100,50) then (180,90) were read and the result is (180,90)
C10_Witness ==
  /\ cxOut # <<>>
  /\ Len(TokenEvents) = 2
  /\ TokenEvents[1].shape.usage[1] = UsageA
  /\ TokenEvents[2].shape.usage[1] = UsageB
  /\ cxOut[1].stats.totalInputTokens = 180
  /\ cxOut[1].stats.totalOutputTokens = 90

\* the records of the input that parseSessionFile did not discard as duplicates
KeptEntries ==
  LET kept == {i \in 1..Len(rdIn) :
                 \A j \in 1..(i - 1) : DedupKey(rdIn[j]) # DedupKey(rdIn[i])}
  IN {rdIn[i] : i \in kept}
CountedUsages ==
  {e \in KeptEntries : e.type = "assistant" /\ e.usage # <<>>}
RECURSIVE SumOver(_, _)
SumOver(S, f) ==
  IF S = {} THEN 0
  ELSE LET e == CHOOSE x \in S : TRUE IN f[e] + SumOver(S \ {e}, f)

\* C11: totalInputTokens is the sum, over the assistant records that were not
\* discarded as duplicates and carry a usage block, of input_tokens +
\* cache_creation_input_tokens + cache_read_input_tokens; totalOutputTokens is
\* the sum of their output_tokens; usage blocks on other records add nothing.
C11_TokenTotals ==
  rdOut # <<>> =>
    /\ rdOut[1].stats.totalInputTokens =
         SumOver(CountedUsages, [e \in CountedUsages |->
           OrZero(e.usage[1].input_tokens)
             + OrZero(e.usage[1].cache_creation_input_tokens)
             + OrZero(e.usage[1].cache_read_input_tokens)])
    /\ rdOut[1].stats.totalOutputTokens =
         SumOver(CountedUsages,
                 [e \in CountedUsages |-> OrZero(e.usage[1].output_tokens)])

\* an assistant record with input 7, cache creation 1, cache read 4 and a user
\* record carrying a usage block were read: the totals are 12 and 3
C11_Witness ==
  /\ rdOut # <<>>
  /\ \E e \in KeptEntries : e.type = "assistant" /\ e.usage = <<Usage1>>
  /\ \E e \in KeptEntries : e.type = "user" /\ e.usage = <<Usage0>>
  /\ rdOut[1].stats.totalInputTokens = 12
  /\ rdOut[1].stats.totalOutputTokens = 3

\* the calendar date, in a zone tz hours ahead of UTC, of an instant
LocalDate(t, tz) == (t + tz) \div 24

\* C12 (as claimed): the date of a Codex session is the local calendar date
\* of endTime minus three hours, in every time zone.
C12_LocalDateMinusThreeHours ==
  [][(cxOut = <<>> /\ cxOut' # <<>>) =>
       \A now \in Nows, tz \in TimeZones, filePath \in FilePaths :
         CodexReturn(now, tz, filePath) =>
           cxOut'[1].date = LocalDate(cxOut'[1].endTime - 3, tz)]_vars

NoTimestamp(seq) == \A i \in 1..Len(seq) : Falsy(seq[i].timestamp)

\* C14: when no record of the file carries a timestamp, the parser returns
\* with startTime and endTime both equal to one wall-clock reading (no record
\* supplies an instant, so the value is the clock's), and the date is derived
\* from that instant by the parser's own date rule.
C14_DefaultsToNow ==
  /\ (rdOut # <<>> /\ NoTimestamp(rdIn)) =>
       /\ rdOut[1].startTime \in Nows
       /\ rdOut[1].endTime = rdOut[1].startTime
       /\ rdOut[1].date = rdOut[1].startTime \div 24
  /\ (cxOut # <<>> /\ NoTimestamp(cxIn)) =>
       /\ cxOut[1].startTime \in Nows
       /\ cxOut[1].endTime = cxOut[1].startTime
       /\ cxOut[1].date = (cxOut[1].startTime - 3) \div 24

\* a Claude file with one record lacking the timestamp field and one with an
\* empty timestamp came back with startTime = endTime
C14_Witness ==
  /\ rdOut # <<>>
  /\ NoTimestamp(rdIn)
  /\ \E i \in 1..Len(rdIn) : rdIn[i].timestamp = UNDEF
  /\ \E i \in 1..Len(rdIn) : rdIn[i].timestamp = EMPTY
  /\ Len(rdOut[1].messages) = 2
  /\ rdOut[1].startTime = rdOut[1].endTime
  /\ rdOut[1].startTime \in Nows

\* the paths the marker lines of a payload name, each once, in order of
\* first occurrence
RECURSIVE NamedPaths(_, _)
NamedPaths(lines, acc) ==
  IF lines = <<>> THEN acc
  ELSE LET l == Head(lines)
           named == l.kind = "marker" /\ l.text # ""
                    /\ ~\E i \in 1..Len(acc) : acc[i] = <<l.text>>
       IN NamedPaths(Tail(lines), IF named THEN Append(acc, <<l.text>>) ELSE acc)

\* C15 (as claimed): extractFilesFromPatch returns exactly the paths named by
\* the Add/Update/Delete File markers, each once, in order of first
\* occurrence; a line without a marker contributes nothing.
C15_ExactlyMarkerPaths ==
  pxOut # <<>> => pxOut[1] = NamedPaths(pxIn, <<>>)

RawCodexNames == {"shell", "shell_command", "apply_patch", "update_plan"}
\* the new-format tool calls of the input that carry one of the given names
NewCalls(names) ==
  {i \in 1..Len(cxIn) :
     /\ cxIn[i].shape.type = "response_item"
     /\ cxIn[i].shape.ptype \in {"function_call", "custom_tool_call"}
     /\ cxIn[i].shape.name \in names}
\* the old-format shell calls of the input whose arguments are of the given class
OldCalls(args) ==
  {i \in 1..Len(cxIn) :
     /\ cxIn[i].shape.type = "function_call"
     /\ cxIn[i].shape.name = "shell"
     /\ cxIn[i].shape.args = args}
CountOf(tc, name) == IF name \in DOMAIN tc THEN tc[name] ELSE 0

\* C16: in what parseCodexSessionFile returns, no key of stats.toolCalls and
\* no ToolUse.name is shell, shell_command, apply_patch or update_plan; shell
\* and shell_command calls are counted under Bash and apply_patch calls under
\* Edit, in the new format and in the old one.
C16_ToolNamesNormalized ==
  cxOut # <<>> =>
    LET out == cxOut[1] IN
    /\ DOMAIN out.stats.toolCalls \cap RawCodexNames = {}
    /\ \A i \in 1..Len(out.messages) :
         \A j \in 1..Len(out.messages[i].toolUses) :
           out.messages[i].toolUses[j].name \notin RawCodexNames
    /\ CountOf(out.stats.toolCalls, "Bash") =
         Cardinality(NewCalls({"shell", "shell_command"}))
           + Cardinality(OldCalls("command"))
    /\ CountOf(out.stats.toolCalls, "Edit") =
         Cardinality(NewCalls({"apply_patch"}))
           + Cardinality(OldCalls("patch_heredoc"))

\* a new-format apply_patch call and an old-format shell call were read and
\* are counted as one Edit and one Bash
C16_Witness ==
  /\ cxOut # <<>>
  /\ NewCalls({"apply_patch"}) # {}
  /\ OldCalls("command") # {}
  /\ cxOut[1].stats.toolCalls = ("Edit" :> 1) @@ ("Bash" :> 1)

\* C17 (as claimed): every ToolUse.input either parser builds is at most 200
\* characters long, the apply_patch summaries built from file paths and the
\* old-format summaries included.
C17_SummaryAtMost200 == smOut <= MAX_LENGTH

Roles == {"user", "assistant"}
\* the message list and the SessionStats counters a parser has accumulated
Tallies(st) ==
  <<st.messages, st.userMessages, st.assistantMessages, st.toolCalls,
    st.totalInputTokens, st.totalOutputTokens>>
\* Codex records whose type no branch of the parser knows
UnknownCodexEntries == {entry \in CodexEntries : entry.shape.type = "turn_context"}

\* C18 (as claimed): in both parsers a record that matches no known shape (a
\* Claude record that is neither user nor assistant, a Codex record of an
\* unknown type) adds no message and changes no SessionStats counter, and
\* every message of a ParsedSession has role user or assistant.
C18_UnknownShapesIgnored ==
  /\ [][\A entry \in OtherEntries :
          ReadEntry(entry) => Tallies(rd') = Tallies(rd)]_vars
  /\ [][\A entry \in UnknownCodexEntries :
          ReadCodexEntry(entry) => Tallies(cx') = Tallies(cx)]_vars
  /\ [](rdOut # <<>> =>
          \A i \in 1..Len(rdOut[1].messages) : rdOut[1].messages[i].type \in Roles)
  /\ [](cxOut # <<>> =>
          \A i \in 1..Len(cxOut[1].messages) : cxOut[1].messages[i].type \in Roles)

\* the base name without its ".jsonl" suffix
StripSuffix(base) ==
  IF base # <<>> /\ base[Len(base)] = ".jsonl" THEN SubSeq(base, 1, Len(base) - 1)
  ELSE base
\* no record of a Claude file carries a sessionId
NoSessionId(seq) == \A i \in 1..Len(seq) : Falsy(seq[i].sessionId)
\* no record of a Codex file carries an id
NoCodexId(seq) == \A i \in 1..Len(seq) : Falsy(seq[i].shape.id)

\* C19 (as claimed): when no record supplies a session id, the sessionId a
\* parser returns is the base name of the file without its .jsonl suffix, and
\* it is never empty.
C19_SessionIdFromFileName ==
  /\ [][\A now \in Nows, filePath \in FilePaths :
          (rdOut' # rdOut /\ NoSessionId(rdIn) /\ ReaderReturn(now, filePath)) =>
            /\ rdOut'[1].sessionId # <<>>
            /\ StripSuffix(filePath[Len(filePath)]) # <<>> =>
                 rdOut'[1].sessionId = StripSuffix(filePath[Len(filePath)])]_vars
  /\ [][\A now \in Nows, tz \in TimeZones, filePath \in FilePaths :
          (cxOut' # cxOut /\ NoCodexId(cxIn) /\ CodexReturn(now, tz, filePath)) =>
            /\ cxOut'[1].sessionId # <<>>
            /\ StripSuffix(filePath[Len(filePath)]) # <<>> =>
                 cxOut'[1].sessionId = StripSuffix(filePath[Len(filePath)])]_vars

\* the first record is an old-format first line: a top-level id and no type
OldFirstRecord(lines) ==
  lines # <<>> /\ ~Falsy(lines[1].shape.id) /\ lines[1].shape.type = ""

\* C20 (as claimed): for an old-format Codex file whose first record has a
\* top-level id and no type, the sessionId the parser returns is that id,
\* with or without a git field, and it equals the session id discovery
\* assigned to the same file.
C20_OldFormatSessionId ==
  [][\A now \in Nows, tz \in TimeZones, filePath \in FilePaths :
       (/\ cxOut' # cxOut
        /\ OldFirstRecord(cxIn)
        /\ discoveredSessionId(cxIn, filePath[Len(filePath)]) # <<>>
        /\ CodexReturn(now, tz, filePath)) =>
         /\ cxOut'[1].sessionId = StringOf(cxIn[1].shape.id)
         /\ cxOut'[1].sessionId =
              discoveredSessionId(cxIn, filePath[Len(filePath)])[1]]_vars

\* the part of a folder name whose dashes are open to interpretation, and the
\* directory in front of it: the project part behind the src/a or src/tries
\* marker, otherwise the whole name
OpenPart(folderName) ==
  LET str == Tail(folderName)
      m == IF SrcMatch(str, "a") # <<>> THEN SrcMatch(str, "a")
           ELSE SrcMatch(str, "tries")
  IN IF m # <<>> THEN [base |-> <<Slash>> \o DashesToSlashes(m[1][1]), part |-> m[1][2]]
     ELSE [base |-> <<>>, part |-> HiddenFolders(str)]
\* every reading of a folder name: each dash of the open part is either kept
\* or read as a separator
DashesOf(str) == {i \in 1..Len(str) : str[i] = Dash}
Interpretations(folderName) ==
  LET o == OpenPart(folderName)
  IN {o.base \o <<Slash>> \o
        [i \in 1..Len(o.part) |-> IF i \in S THEN Slash ELSE o.part[i]] :
      S \in SUBSET DashesOf(o.part)}
\* the reading that keeps every dash
LiteralOf(folderName) ==
  OpenPart(folderName).base \o <<Slash>> \o OpenPart(folderName).part

\* C21 (as claimed): when the reading of a folder name that keeps every
\* delimiter does not exist on disk but a reading that splits some of them
\* does, decodeProjectFolder resolves to a reading that exists and not to
\* the literal one; the literal reading is returned only when no reading
\* exists.
C21_ExistingInterpretationWins ==
  (dcOut # <<>> /\ dcOut[1].by = "claude"
     /\ LiteralOf(dcOut[1].folderName) \notin disk
     /\ Interpretations(dcOut[1].folderName) \cap disk # {}) =>
    /\ dcOut[1].decodedPath \in Interpretations(dcOut[1].folderName) \cap disk
    /\ dcOut[1].decodedPath # LiteralOf(dcOut[1].folderName)

\* the readings of a folder name that the resolver of its branch probes
CandidatesOf(folderName) ==
  LET o == OpenPart(folderName)
      parts == SplitOn(o.part, Dash)
  IN IF o.base # <<>>
     THEN {ProjectCandidate(o.base, parts, c) : c \in 0..(Len(parts) - 1)}
     ELSE {FullCandidate(parts, i) : i \in 1..(Len(parts) - 1)}
\* the number of delimiters a reading keeps
DashCount(path) == Cardinality(DashesOf(path))

\* C22 (as claimed): in both branches of decodeProjectFolder the candidates
\* are probed from the one keeping every delimiter towards the one splitting
\* every delimiter, so of the candidates that exist on disk the one keeping
\* the most delimiters is returned.
C22_MostLiteralCandidateWins ==
  (dcOut # <<>> /\ dcOut[1].by = "claude"
     /\ CandidatesOf(dcOut[1].folderName) \cap disk # {}) =>
    /\ dcOut[1].decodedPath \in CandidatesOf(dcOut[1].folderName) \cap disk
    /\ \A other \in CandidatesOf(dcOut[1].folderName) \cap disk :
         DashCount(other) <= DashCount(dcOut[1].decodedPath)

\* the working directory a session file records: the first cwd among its
\* first ten lines, as a list of zero or one
RecordedCwd(sessionFile) ==
  IF sessionFile = NoSessionFile THEN <<>>
  ELSE LET lines == sessionFile[2]
           at == {i \in 1..Len(lines) : i <= 10 /\ lines[i] # NoCwd}
       IN IF at = {} THEN <<>>
          ELSE <<lines[CHOOSE i \in at : \A j \in at : i <= j]>>
\* the reading that takes every delimiter as a separator
AllSeparators(folderName) ==
  OpenPart(folderName).base \o <<Slash>> \o DashesToSlashes(OpenPart(folderName).part)

\* C23 (as claimed): when no candidate of a folder name exists on disk,
\* decodeProjectFolder resolves to the working directory recorded in the
\* session file if there is one and otherwise to the reading with every
\* delimiter a separator, whichever branch handles the name.
C23_FallbackChain ==
  (dcOut # <<>> /\ dcOut[1].by = "claude"
     /\ CandidatesOf(dcOut[1].folderName) \cap disk = {}) =>
    dcOut[1].decodedPath =
      IF RecordedCwd(dcOut[1].sessionFile) # <<>>
      THEN RecordedCwd(dcOut[1].sessionFile)[1]
      ELSE AllSeparators(dcOut[1].folderName)

\* the directory itself and every directory above it
AncestorsOrSelf(path) ==
  {SubSeq(path, 1, k - 1) : k \in {i \in 2..(Len(path) + 1) :
                                     i = Len(path) + 1 \/ path[i] = Slash}}
\* the nearest directory at or above path that holds a .git entry, or path
\* itself when there is none
CanonicalRoot(g, path) ==
  LET roots == AncestorsOrSelf(path) \cap g
  IN IF roots = {} THEN path
     ELSE CHOOSE r \in roots : \A r2 \in roots : Len(r2) <= Len(r)

\* C24 (as claimed): a Claude folder that decodes to an existing directory
\* and a Codex working directory that exists resolve to the nearest
\* directory at or above them that holds a .git entry, and to themselves
\* when no such directory exists; so directories of one repository, from
\* either source, resolve to the same project path.
C24_GitRootCanonical ==
  (dcOut # <<>> /\ dcOut[1].decodedPath \in disk) =>
    dcOut[1].identity.path = CanonicalRoot(gits, dcOut[1].decodedPath)

\* C25 (as claimed): the project name is the sentinel "~" exactly when the
\* resolved project path is the home directory, for a path decoded from a
\* folder name and for the working directory of a Codex session alike.
C25_HomeSentinel ==
  dcOut # <<>> =>
    (dcOut[1].identity.name = <<"~">> <=> dcOut[1].identity.path = homedir)

SelectedNow ==
  LET seq == findUnprocessedSessions(FALSE, fs, ledger)
  IN {seq[k].path : k \in 1..Len(seq)}

\* C29 (as claimed): when a date or week filter is active and the date of a
\* parsed session is outside it, processSession leaves the ledger, the store
\* and the projects table as they are and does not mark the file, so a later
\* run without the filter still selects the file.
C29_FilteredLeavesNoTrace ==
  /\ [][\A p \in Files :
          (/\ task[p].st = "parsing" /\ task'[p].parsed # NoParse
           /\ opts.filter.type # "none"
           /\ ~MatchesFilter(opts.filter, task'[p].parsed.date)) =>
            /\ task'[p].st = "filtered"
            /\ ledger' = ledger /\ store' = store /\ projects' = projects
            /\ marks' = marks]_vars
  /\ [](\A p \in Files :
          (/\ task[p].st = "filtered" /\ ~opts.force
           /\ SessionAt(p).fileHash = computeFileHash(fs[p])) =>
            p \in SelectedNow)

C29_Witness ==
  /\ pc = "batch"
  /\ opts.filter.type = "range"
  /\ \E p \in Files :
       /\ task[p].st = "filtered"
       /\ ~MatchesFilter(opts.filter, task[p].parsed.date)
       /\ p \in SelectedNow
       /\ \E q \in Files : task[q].st = "ok"

\* the ToolUse entries named n across a message list
ToolUsesNamed(messages, n) ==
  {<<i, j>> \in (1..Len(messages)) \X (1..2) :
     j <= Len(messages[i].toolUses) /\ messages[i].toolUses[j].name = n}
\* the tool names a ParsedSession mentions, in its histogram or its messages
NamesIn(out) ==
  DOMAIN out.stats.toolCalls
    \cup {out.messages[i].toolUses[j].name :
            <<i, j>> \in {<<i, j>> \in (1..Len(out.messages)) \X (1..2) :
                            j <= Len(out.messages[i].toolUses)}}
HistogramAgrees(out) ==
  /\ \A i \in 1..Len(out.messages) : Len(out.messages[i].toolUses) <= 2
  /\ \A n \in NamesIn(out) :
       /\ n \in DOMAIN out.stats.toolCalls
       /\ out.stats.toolCalls[n] = Cardinality(ToolUsesNamed(out.messages, n))
       /\ out.stats.toolCalls[n] >= 1

\* C30: in the ParsedSession either parser returns, stats.toolCalls[n] is the
\* number of ToolUse entries named n across the messages, and a name is
\* absent from toolCalls exactly when no message carries such a ToolUse.
C30_HistogramMatchesMessages ==
  /\ rdOut # <<>> => HistogramAgrees(rdOut[1])
  /\ cxOut # <<>> => HistogramAgrees(cxOut[1])

C30_Witness ==
  /\ rdOut # <<>>
  /\ Len(rdOut[1].messages) = 2
  /\ rdOut[1].stats.toolCalls = ("Read" :> 2) @@ ("Edit" :> 1)

\* the batch a position belongs to
BatchNo(k) == k \div CONCURRENCY

\* C27: at any moment at most 10 files are being processed, and no file of a
\* later batch has started while a file of an earlier batch is unsettled.
C27_BatchesInOrder ==
  bqN > 0 =>
    /\ Cardinality({k \in DOMAIN bqTask : bqTask[k] = "running"}) <= 10
    /\ \A j, k \in DOMAIN bqTask :
         (BatchNo(j) < BatchNo(k) /\ bqTask[k] # "pending") =>
           bqTask[j] \in {"done", "failed"}

C27_Witness ==
  /\ bqN > CONCURRENCY
  /\ bqTask[CONCURRENCY] = "running"
  /\ \E j \in 0..(CONCURRENCY - 1) : bqTask[j] = "failed"
  /\ \E j \in 0..(CONCURRENCY - 1) : bqTask[j] = "done"

\* processSession on file k from its call to its return with no other task
\* in between, on the database db
ProcessAlone(db, f, k, filter) ==
  IF f.fate = "parseThrows" THEN [db |-> db, st |-> "error"]
  ELSE LET sf == RaceSessionFile(f, k)
           parsed == RaceParse(f, k)
           a == AfterParse(db.ledger, sf, filter, parsed)
           b == AfterSummary(db.ledger, db.store, db.projects, sf, parsed,
                             f.fate = "noWork", FailAtOf(f.fate))
       IN IF a.st # "summarizing"
          THEN [db |-> [db EXCEPT !.ledger = a.ledger], st |-> a.st]
          ELSE [db |-> [ledger |-> b.ledger, store |-> b.store,
                        projects |-> b.projects],
                st |-> b.st]

\* the files of the plan processed one after the other, in their order
RECURSIVE OneByOne(_, _, _, _, _)
OneByOne(db, sts, plan, filter, k) ==
  IF k > Len(plan) THEN [db |-> db, sts |-> sts]
  ELSE LET r == ProcessAlone(db, plan[k], k, filter)
       IN OneByOne(r.db, Append(sts, r.st), plan, filter, k + 1)

InOrder == OneByOne([ledger |-> {}, store |-> {}, projects |-> {}], <<>>,
                    rcPlan, rcFilter, 1)

\* C28 (as claimed): for a fixed set of selected files the ledger, the stored
\* session rows, the project records and the returned counts at the end of
\* the batch are the same whatever the order in which the concurrent tasks
\* complete (so they are what one-by-one processing gives), and the tasks
\* share no state but the ledger: no task changes a project record or a
\* session row another task has written.
C28_OrderIndependent ==
  /\ [](rcPc = "done" =>
          /\ rcDb = InOrder.db
          /\ rcRet = [sessionsProcessed |-> RaceCount(InOrder.sts, "ok"),
                      errors |-> RaceCount(InOrder.sts, "error")])
  /\ [][/\ \A r \in rcDb.projects : r \in rcDb'.projects
        /\ \A r \in rcDb.store : r \in rcDb'.store]_vars

====
